---- MODULE Spec2Model ----
(***************************************************************************)
(* Verification model of the omega-router-sdk command encoder:             *)
(*   - RoutePlanner (utils/routerCommands.ts): the append-only plan        *)
(*   - the exact-output binary path encoder (utils/encodePath.ts)          *)
(*   - OmegaEncoder.encode (entities/OmegaEncoder.ts) and a model ledger   *)
(*   - OmegaTrade.encode, the step-driven encoder (entities/OmegaTrade.ts) *)
(***************************************************************************)
EXTENDS Integers, Sequences, FiniteSets, TLC

(***************************************************************************)
(* Bounds of the model                                                     *)
(***************************************************************************)
\* number of addCommand / addSubPlan calls made on the planners
MaxCalls == 2
\* number of hops of a plain route or of a caller-built hop list
MaxHops == 2
\* number of steps (WRAP, UNWRAP, SWAP) of a boosted route
MaxSteps == 3
\* number of routes (swaps) of a trade
MaxRoutes == 3

\* number of routes in one batchQuote call
MaxBatch == 2

(***************************************************************************)
(* CommandType (utils/routerCommands.ts)                                   *)
(***************************************************************************)
INTEGRAL_SWAP_EXACT_IN == 0
INTEGRAL_SWAP_EXACT_OUT == 1
PERMIT2_TRANSFER_FROM == 2
PERMIT2_PERMIT_BATCH == 3
SWEEP == 4
TRANSFER == 5
PAY_PORTION == 6
ERC4626_WRAP == 7
V2_SWAP_EXACT_IN == 8
V2_SWAP_EXACT_OUT == 9
PERMIT2_PERMIT == 10
WRAP_ETH == 11
UNWRAP_WETH == 12
PERMIT2_TRANSFER_FROM_BATCH == 13
BALANCE_CHECK_ERC20 == 14
ERC4626_UNWRAP == 15
UNISWAP_V3_SWAP_EXACT_IN == 16
UNISWAP_V3_SWAP_EXACT_OUT == 17
INTEGRAL_POSITION_MANAGER_CALL == 18
INTEGRAL_MINT == 19
INTEGRAL_POSITION_MANAGER_PERMIT == 20
EXECUTE_SUB_PLAN == 33

CommandType ==
    { INTEGRAL_SWAP_EXACT_IN, INTEGRAL_SWAP_EXACT_OUT, PERMIT2_TRANSFER_FROM,
      PERMIT2_PERMIT_BATCH, SWEEP, TRANSFER, PAY_PORTION, ERC4626_WRAP,
      V2_SWAP_EXACT_IN, V2_SWAP_EXACT_OUT, PERMIT2_PERMIT, WRAP_ETH, UNWRAP_WETH,
      PERMIT2_TRANSFER_FROM_BATCH, BALANCE_CHECK_ERC20, ERC4626_UNWRAP,
      UNISWAP_V3_SWAP_EXACT_IN, UNISWAP_V3_SWAP_EXACT_OUT,
      INTEGRAL_POSITION_MANAGER_CALL, INTEGRAL_MINT,
      INTEGRAL_POSITION_MANAGER_PERMIT, EXECUTE_SUB_PLAN }

ALLOW_REVERT_FLAG == 128

REVERTIBLE_COMMANDS_Wide == { EXECUTE_SUB_PLAN, SWEEP }

REVERTIBLE_COMMANDS == { EXECUTE_SUB_PLAN }

\* Parser.IntegralActions commands take their input pre-encoded at index 0,
\* every other command is ABI-encoded from its parameter list.
IntegralActionsCommands ==
    { INTEGRAL_POSITION_MANAGER_PERMIT, INTEGRAL_POSITION_MANAGER_CALL }

\* type | ALLOW_REVERT_FLAG for a command type below 0x80
OrFlag(type) == IF type >= ALLOW_REVERT_FLAG THEN type ELSE type + ALLOW_REVERT_FLAG

(***************************************************************************)
(* RoutePlanner                                                            *)
(***************************************************************************)
\* new RoutePlanner(): commands = '0x' (no opcode byte), inputs = []
EmptyPlanner == [commands |-> <<>>, inputs |-> <<>>]

\* createCommand: the ABI encoding of the parameter list is kept symbolic, as
\* the pair (command type, parameter values); IntegralActions commands pass
\* parameters[0] through.
createCommand(type, parameters) ==
    IF type \in IntegralActionsCommands
    THEN [type |-> type, encodedInput |-> [abi |-> "raw", values |-> parameters]]
    ELSE [type |-> type, encodedInput |-> [abi |-> "abi", values |-> parameters]]

\* addCommand that overwrites the last input instead of appending
addCommand_Overwrite(p, type, parameters, allowRevert) ==
    LET command == createCommand(type, parameters)
        pushed == IF p.inputs = <<>>
                  THEN <<command.encodedInput>>
                  ELSE [p.inputs EXCEPT ![Len(p.inputs)] = command.encodedInput]
    IN  IF allowRevert /\ command.type \notin REVERTIBLE_COMMANDS
        THEN [planner |-> [p EXCEPT !.inputs = pushed], threw |-> TRUE]
        ELSE [planner |->
                 [commands |-> Append(p.commands,
                                      IF allowRevert THEN OrFlag(command.type)
                                                     ELSE command.type),
                  inputs |-> pushed],
              threw |-> FALSE]

\* addCommand with a revertible set that is too wide
addCommand_WideRevert(p, type, parameters, allowRevert) ==
    LET command == createCommand(type, parameters)
        pushed == Append(p.inputs, command.encodedInput)
    IN  IF allowRevert /\ command.type \notin REVERTIBLE_COMMANDS_Wide
        THEN [planner |-> [p EXCEPT !.inputs = pushed], threw |-> TRUE]
        ELSE [planner |->
                 [commands |-> Append(p.commands,
                                      IF allowRevert THEN OrFlag(command.type)
                                                     ELSE command.type),
                  inputs |-> pushed],
              threw |-> FALSE]

\* RoutePlanner.addCommand: the encoded input is pushed first, then the revert
\* flag is checked (and may throw), then the opcode byte is appended.
addCommand(p, type, parameters, allowRevert) ==
    LET command == createCommand(type, parameters)
        pushed == Append(p.inputs, command.encodedInput)
    IN  IF allowRevert /\ command.type \notin REVERTIBLE_COMMANDS
        THEN [planner |-> [p EXCEPT !.inputs = pushed], threw |-> TRUE]
        ELSE [planner |->
                 [commands |-> Append(p.commands,
                                      IF allowRevert THEN OrFlag(command.type)
                                                     ELSE command.type),
                  inputs |-> pushed],
              threw |-> FALSE]

\* RoutePlanner.addSubPlan: addCommand(EXECUTE_SUB_PLAN, [commands, inputs], true)
addSubPlan(p, subplan) ==
    addCommand(p, EXECUTE_SUB_PLAN, <<subplan.commands, subplan.inputs>>, TRUE)

(***************************************************************************)
(* Tokens, pools and routes                                                *)
(***************************************************************************)
\* Currencies: the native currency "ETH", its wrapper "WETH", two plain tokens
\* and their ERC4626 vault tokens.
Tokens == {"WETH", "A", "B", "vA", "vB"}

IsNative(c) == c = "ETH"

\* currency.wrapped
Wrapped(c) == IF c = "ETH" THEN "WETH" ELSE c

IsVault(t) == t \in {"vA", "vB", "vWETH", "vC"}

\* VaultToken.underlying
Underlying(t) ==
    CASE t = "vA" -> "A"
      [] t = "vB" -> "B"
      [] t = "vWETH" -> "WETH"
      [] t = "vC" -> "C"

\* token.address, as the value of its 20 bytes
Address(t) ==
    CASE t = "WETH" -> 1
      [] t = "A" -> 2
      [] t = "B" -> 3
      [] t = "vA" -> 4
      [] t = "vB" -> 5

ADDRESS_ZERO == 0

\* pool.deployer of the pool that trades a and b: pools of the wrapped native
\* token come from a custom deployer, the others from the default one
PoolDeployer(a, b) == IF "WETH" \in {a, b} THEN 9 ELSE ADDRESS_ZERO

WRAP == "WRAP"
UNWRAP == "UNWRAP"
SWAP == "SWAP"

\* The step of a boosted route that leads from token a to token b: a vault
\* deposit, a vault redeem, or a pool swap.
StepBetween(a, b) ==
    [type |-> IF IsVault(b) /\ Underlying(b) = a THEN WRAP
              ELSE IF IsVault(a) /\ Underlying(a) = b THEN UNWRAP
              ELSE SWAP,
     tokenIn |-> a, tokenOut |-> b, deployer |-> PoolDeployer(a, b)]

\* token paths of n hops without a repeated token
TokenPaths(n) ==
    { q \in [1..(n + 1) -> Tokens] : \A i, j \in 1..(n + 1) : i # j => q[i] # q[j] }

\* BoostedRoute.steps for the token path q
StepsOf(q) == [i \in 1..(Len(q) - 1) |-> StepBetween(q[i], q[i + 1])]

\* Route.pools (their deployers) for the token path q of a plain Integral route
IntegralRouteOf(q) ==
    [tokenPath |-> q,
     pools |-> [i \in 1..(Len(q) - 1) |-> [deployer |-> PoolDeployer(q[i], q[i + 1])]]]

(***************************************************************************)
(* Exact-output binary path encoder (utils/encodePath.ts)                  *)
(***************************************************************************)
WrapAction == [NONE |-> 0, WRAP |-> 1, UNWRAP |-> 2]

\* an address is written as 20 bytes, a wrap action as 1 byte
ADDR_BYTES == 20

\* address.slice(2).toLowerCase(): the 20 bytes of the address (big-endian);
\* lower-casing changes the hex text, not the bytes
AddrBytes(a) == [i \in 1..ADDR_BYTES |-> IF i = ADDR_BYTES THEN a ELSE 0]

\* wrap.toString(16).padStart(2, '0'): one byte
WrapByte(w) == <<w>>

\* the bytes of one hop record; tokenIn is written only when last is TRUE
HopBytes(hop, last) ==
    AddrBytes(hop.tokenOut) \o WrapByte(hop.wrapOut) \o AddrBytes(hop.poolTokenOut)
        \o AddrBytes(hop.deployer) \o AddrBytes(hop.poolTokenIn) \o WrapByte(hop.wrapIn)
        \o (IF last THEN AddrBytes(hop.tokenIn) ELSE <<>>)

RECURSIVE EncodeFrom(_, _)
EncodeFrom(hopList, i) ==
    IF i > Len(hopList) THEN <<>>
    ELSE HopBytes(hopList[i], i = Len(hopList)) \o EncodeFrom(hopList, i + 1)

\* encodeBoostedPathExactOutput(hops): '0x' followed by the hop records
encodeBoostedPathExactOutput(hopList) == EncodeFrom(hopList, 1)

\* the hop that encodeBoostedRouteExactOutput builds for the SWAP step at
\* index swapIdx of steps
BoostedHop(steps, swapIdx) ==
    LET swapStep == steps[swapIdx]
        hasBefore == swapIdx > 1
        hasAfter == swapIdx < Len(steps)
        afterType == IF hasAfter THEN steps[swapIdx + 1].type ELSE "none"
        beforeType == IF hasBefore THEN steps[swapIdx - 1].type ELSE "none"
    IN  [tokenOut |-> IF afterType \in {UNWRAP, WRAP}
                      THEN Address(steps[swapIdx + 1].tokenOut)
                      ELSE Address(swapStep.tokenOut),
         wrapOut |-> IF afterType = UNWRAP THEN WrapAction.UNWRAP
                     ELSE IF afterType = WRAP THEN WrapAction.WRAP
                     ELSE WrapAction.NONE,
         poolTokenOut |-> Address(swapStep.tokenOut),
         deployer |-> swapStep.deployer,
         poolTokenIn |-> Address(swapStep.tokenIn),
         wrapIn |-> IF beforeType = WRAP THEN WrapAction.WRAP
                    ELSE IF beforeType = UNWRAP THEN WrapAction.UNWRAP
                    ELSE WrapAction.NONE,
         tokenIn |-> IF beforeType \in {WRAP, UNWRAP}
                     THEN Address(steps[swapIdx - 1].tokenIn)
                     ELSE Address(swapStep.tokenIn)]

\* the indices of the SWAP steps, in descending order
RECURSIVE SwapIndicesDown(_, _)
SwapIndicesDown(steps, i) ==
    IF i < 1 THEN <<>>
    ELSE IF steps[i].type = SWAP THEN <<i>> \o SwapIndicesDown(steps, i - 1)
    ELSE SwapIndicesDown(steps, i - 1)

\* the hop list encodeBoostedRouteExactOutput builds: one hop per SWAP step,
\* last swap first
BoostedRouteHops(steps) ==
    LET idx == SwapIndicesDown(steps, Len(steps))
    IN  [k \in 1..Len(idx) |-> BoostedHop(steps, idx[k])]

encodeBoostedRouteExactOutput(steps) ==
    encodeBoostedPathExactOutput(BoostedRouteHops(steps))

\* the hop list encodeIntegralRouteExactOutput builds: pools in reverse order,
\* no wrap action
IntegralRouteHops(route) ==
    LET n == Len(route.pools)
    IN  [k \in 1..n |->
            LET i == n + 1 - k
            IN  [tokenOut |-> Address(route.tokenPath[i + 1]),
                 wrapOut |-> WrapAction.NONE,
                 poolTokenOut |-> Address(route.tokenPath[i + 1]),
                 deployer |-> route.pools[i].deployer,
                 poolTokenIn |-> Address(route.tokenPath[i]),
                 wrapIn |-> WrapAction.NONE,
                 tokenIn |-> Address(route.tokenPath[i])]]

encodeIntegralRouteExactOutput(route) ==
    encodeBoostedPathExactOutput(IntegralRouteHops(route))

\* The inverse of the record layout: tokenOut(20) wrapOut(1) poolTokenOut(20)
\* deployer(20) poolTokenIn(20) wrapIn(1), and tokenIn(20) on the last record;
\* the tokenIn of any other record is read from the tokenOut that follows it.
RECORD_BYTES == 82

\* the address held by the 20 bytes at offset off (0-based); -1 when they are
\* not the bytes of an address of the model
AddrAt(bytes, off) ==
    IF \A i \in 1..(ADDR_BYTES - 1) : bytes[off + i] = 0
    THEN bytes[off + ADDR_BYTES]
    ELSE 0 - 1

RECURSIVE DecodeFrom(_, _)
DecodeFrom(bytes, off) ==
    IF Len(bytes) - off < RECORD_BYTES + ADDR_BYTES THEN <<>>
    ELSE <<[tokenOut |-> AddrAt(bytes, off),
            wrapOut |-> bytes[off + 21],
            poolTokenOut |-> AddrAt(bytes, off + 21),
            deployer |-> AddrAt(bytes, off + 41),
            poolTokenIn |-> AddrAt(bytes, off + 61),
            wrapIn |-> bytes[off + 82],
            tokenIn |-> AddrAt(bytes, off + RECORD_BYTES)]>>
         \o DecodeFrom(bytes, off + RECORD_BYTES)

decodeBoostedPathExactOutput(bytes) == DecodeFrom(bytes, 0)

(***************************************************************************)
(* Trades, routes and options: the inputs of OmegaEncoder                  *)
(***************************************************************************)
EXACT_INPUT == "EXACT_INPUT"
EXACT_OUTPUT == "EXACT_OUTPUT"

Protocol ==
    [V2 |-> "V2", V3 |-> "V3", INTEGRAL |-> "INTEGRAL",
     INTEGRAL_BOOSTED |-> "INTEGRAL_BOOSTED", MIXED |-> "MIXED"]

\* sentinels shared with the router contract
ADDRESS_THIS == "ADDRESS_THIS"
MSG_SENDER == "MSG_SENDER"
CONTRACT_BALANCE == 2 ^ 30
SOURCE_ROUTER == FALSE

SENDER_AS_RECIPIENT == MSG_SENDER
ROUTER_AS_RECIPIENT == ADDRESS_THIS

\* options.recipient when the caller leaves it out
UNDEFINED == "undefined"

\* BoostedRoute.pools: the pools of the SWAP steps (none for a route that
\* only deposits into or redeems from a vault)
BoostedPoolsOf(q) ==
    LET swapSteps == SelectSeq(StepsOf(q), LAMBDA st : st.type = SWAP)
    IN  [i \in 1..Len(swapSteps) |-> [deployer |-> swapSteps[i].deployer]]

\* a route from input to output along the token path q (wrapped tokens)
RouteOf(protocol, input, output, q) ==
    [protocol |-> protocol, input |-> input, output |-> output, tokenPath |-> q,
     isBoosted |-> protocol = Protocol.INTEGRAL_BOOSTED,
     steps |-> IF protocol = Protocol.INTEGRAL_BOOSTED THEN StepsOf(q) ELSE <<>>,
     pools |-> IF protocol = Protocol.INTEGRAL_BOOSTED THEN BoostedPoolsOf(q)
               ELSE IntegralRouteOf(q).pools]

\* the token paths of at most n hops that lead from currency input to output
PathsBetween(input, output, n) ==
    UNION { { q \in TokenPaths(m) : q[1] = Wrapped(input) /\ q[m + 1] = Wrapped(output) } :
            m \in 1..n }

\* trade.inputAmount / trade.outputAmount: the sums over the swaps
RECURSIVE SumIn(_, _)
SumIn(swaps, k) ==
    IF k = 0 THEN 0 ELSE swaps[k].inputAmount + SumIn(swaps, k - 1)

RECURSIVE SumOut(_, _)
SumOut(swaps, k) ==
    IF k = 0 THEN 0 ELSE swaps[k].outputAmount + SumOut(swaps, k - 1)

inputAmount(trade) == SumIn(trade.swaps, Len(trade.swaps))

outputAmount(trade) == SumOut(trade.swaps, Len(trade.swaps))

\* trade.maximumAmountIn(slippage): the input itself for EXACT_INPUT, else the
\* input increased by the tolerance (in basis points), rounded down
maximumAmountIn(trade, slippageTolerance) ==
    IF trade.tradeType = EXACT_INPUT THEN inputAmount(trade)
    ELSE (inputAmount(trade) * (10000 + slippageTolerance)) \div 10000

\* trade.minimumAmountOut(slippage): the output itself for EXACT_OUTPUT, else
\* the output reduced by the tolerance, rounded down
minimumAmountOut(trade, slippageTolerance) ==
    IF trade.tradeType = EXACT_OUTPUT THEN outputAmount(trade)
    ELSE (outputAmount(trade) * 10000) \div (10000 + slippageTolerance)

inputRequiresWrap(trade) == IsNative(trade.input)

outputRequiresUnwrap(trade) == IsNative(trade.output)

\* encodeRouteToPath(route, exactOutput) of the pool SDKs: the token addresses
\* of the route, reversed for exact output
encodeRouteToPath(tokenPath, exactOutput) ==
    [tokens |-> [i \in 1..Len(tokenPath) |->
                    IF exactOutput THEN Address(tokenPath[Len(tokenPath) + 1 - i])
                    ELSE Address(tokenPath[i])]]

\* encodeIntegralExactOut(route)
encodeIntegralExactOut(route) ==
    IF route.isBoosted THEN encodeBoostedRouteExactOutput(route.steps)
    ELSE encodeIntegralRouteExactOutput(route)

(***************************************************************************)
(* OmegaEncoder (entities/OmegaEncoder.ts)                                 *)
(***************************************************************************)
\* one planner.addCommand(type, parameters) of the encoder; swap and step say
\* which swap of the trade and which step of its route the call was made for
\* (0: none)
Cmd(type, parameters, swap, step) ==
    [type |-> type, parameters |-> parameters, swap |-> swap, step |-> step]

\* a pass through a switch on step.type in which no case matched: no
\* addCommand call is made
NoCmd == Cmd(0 - 1, <<>>, 0, 0)

\* the addCommand calls among the passes through the switch
Added(cmds) == SelectSeq(cmds, LAMBDA c : c.type >= 0)

\* a transfer-in of the quoted input, without the slippage allowance
transferIn_InputAmount(trade, options) ==
    IF inputRequiresWrap(trade)
    THEN <<Cmd(WRAP_ETH, <<ROUTER_AS_RECIPIENT, inputAmount(trade)>>, 0, 0)>>
    ELSE <<Cmd(PERMIT2_TRANSFER_FROM,
               <<Address(Wrapped(trade.input)), ROUTER_AS_RECIPIENT,
                 inputAmount(trade)>>, 0, 0)>>

\* encode, lines 65-79: wrap the native input or pull the input token
transferIn(trade, options) ==
    IF inputRequiresWrap(trade)
    THEN <<Cmd(WRAP_ETH,
               <<ROUTER_AS_RECIPIENT,
                 maximumAmountIn(trade, options.slippageTolerance)>>, 0, 0)>>
    ELSE <<Cmd(PERMIT2_TRANSFER_FROM,
               <<Address(Wrapped(trade.input)), ROUTER_AS_RECIPIENT,
                 maximumAmountIn(trade, options.slippageTolerance)>>, 0, 0)>>

\* variant: the swap carries the trade minimum also when it pays the router
PlainSwapParams_MinWhenCustody(trade, options, k, routerMustCustody, path) ==
    IF trade.tradeType = EXACT_INPUT
    THEN <<IF routerMustCustody THEN ROUTER_AS_RECIPIENT ELSE options.recipient,
           trade.swaps[k].inputAmount,
           minimumAmountOut(trade, options.slippageTolerance),
           path, SOURCE_ROUTER>>
    ELSE <<IF routerMustCustody THEN ROUTER_AS_RECIPIENT ELSE options.recipient,
           trade.swaps[k].outputAmount,
           maximumAmountIn(trade, options.slippageTolerance),
           path, SOURCE_ROUTER>>

\* the parameters shared by the three plain swap encoders
PlainSwapParams(trade, options, k, routerMustCustody, path) ==
    IF trade.tradeType = EXACT_INPUT
    THEN <<IF routerMustCustody THEN ROUTER_AS_RECIPIENT ELSE options.recipient,
           trade.swaps[k].inputAmount,
           IF routerMustCustody THEN 0
           ELSE minimumAmountOut(trade, options.slippageTolerance),
           path, SOURCE_ROUTER>>
    ELSE <<IF routerMustCustody THEN ROUTER_AS_RECIPIENT ELSE options.recipient,
           trade.swaps[k].outputAmount,
           maximumAmountIn(trade, options.slippageTolerance),
           path, SOURCE_ROUTER>>

addV2Swap(trade, options, k, routerMustCustody) ==
    LET route == trade.swaps[k].route
        path == [i \in 1..Len(route.tokenPath) |-> Address(route.tokenPath[i])]
    IN  <<Cmd(IF trade.tradeType = EXACT_INPUT THEN V2_SWAP_EXACT_IN
              ELSE V2_SWAP_EXACT_OUT,
              PlainSwapParams(trade, options, k, routerMustCustody, path), k, 0)>>

addV3Swap(trade, options, k, routerMustCustody) ==
    LET route == trade.swaps[k].route
        path == encodeRouteToPath(route.tokenPath, trade.tradeType = EXACT_OUTPUT)
    IN  <<Cmd(IF trade.tradeType = EXACT_INPUT THEN UNISWAP_V3_SWAP_EXACT_IN
              ELSE UNISWAP_V3_SWAP_EXACT_OUT,
              PlainSwapParams(trade, options, k, routerMustCustody, path), k, 0)>>

addIntegralSwap(trade, options, k, routerMustCustody) ==
    LET route == trade.swaps[k].route
        path == IF trade.tradeType = EXACT_INPUT
                THEN encodeRouteToPath(route.tokenPath, FALSE)
                ELSE encodeIntegralExactOut(route)
    IN  <<Cmd(IF trade.tradeType = EXACT_INPUT THEN INTEGRAL_SWAP_EXACT_IN
              ELSE INTEGRAL_SWAP_EXACT_OUT,
              PlainSwapParams(trade, options, k, routerMustCustody, path), k, 0)>>

\* a step encoder that pays every step out to the trade's recipient
BoostedStepCmd_AllToRecipient(trade, options, k, routerMustCustody, i) ==
    LET step == trade.swaps[k].route.steps[i]
        stepAmount == IF i = 1 THEN trade.swaps[k].inputAmount ELSE CONTRACT_BALANCE
        stepMinAmountOut == IF i = Len(trade.swaps[k].route.steps) /\ ~routerMustCustody
                            THEN minimumAmountOut(trade, options.slippageTolerance)
                            ELSE 0
    IN  CASE step.type = WRAP ->
               Cmd(ERC4626_WRAP,
                   <<Address(step.tokenOut), Address(step.tokenIn), options.recipient,
                     stepAmount, stepMinAmountOut>>, k, i)
          [] step.type = UNWRAP ->
               Cmd(ERC4626_UNWRAP,
                   <<Address(step.tokenIn), options.recipient, stepAmount,
                     stepMinAmountOut>>, k, i)
          [] step.type = SWAP ->
               Cmd(INTEGRAL_SWAP_EXACT_IN,
                   <<options.recipient, stepAmount, stepMinAmountOut,
                     encodeRouteToPath(<<step.tokenIn, step.tokenOut>>, FALSE),
                     SOURCE_ROUTER>>, k, i)
          [] OTHER -> NoCmd

\* encodeBoostedExactInput, lines 321-371: the command of step i; the switch
\* has no default case, so a step of any other type adds no command
BoostedStepCmd(trade, options, k, routerMustCustody, i) ==
    LET route == trade.swaps[k].route
        steps == route.steps
        step == steps[i]
        recipient == IF routerMustCustody THEN ROUTER_AS_RECIPIENT
                     ELSE options.recipient
        amount == trade.swaps[k].inputAmount
        minAmountOut == IF routerMustCustody THEN 0
                        ELSE minimumAmountOut(trade, options.slippageTolerance)
        shouldUnwrapOutput == IsNative(route.output) /\ ~routerMustCustody
        isFirstStep == i = 1
        isLastStep == i = Len(steps)
        stepRecipient == IF isLastStep
                         THEN (IF shouldUnwrapOutput THEN ADDRESS_THIS ELSE recipient)
                         ELSE ADDRESS_THIS
        stepAmount == IF isFirstStep THEN amount ELSE CONTRACT_BALANCE
        stepMinAmountOut == IF isLastStep THEN minAmountOut ELSE 0
    IN  CASE step.type = WRAP ->
               Cmd(ERC4626_WRAP,
                   <<Address(step.tokenOut), Address(step.tokenIn), stepRecipient,
                     stepAmount, stepMinAmountOut>>, k, i)
          [] step.type = UNWRAP ->
               Cmd(ERC4626_UNWRAP,
                   <<Address(step.tokenIn), stepRecipient, stepAmount,
                     stepMinAmountOut>>, k, i)
          [] step.type = SWAP ->
               Cmd(INTEGRAL_SWAP_EXACT_IN,
                   <<stepRecipient, stepAmount, stepMinAmountOut,
                     encodeRouteToPath(<<step.tokenIn, step.tokenOut>>, FALSE),
                     SOURCE_ROUTER>>, k, i)
          [] OTHER -> NoCmd

\* variant: the native unwrap is added whenever the route pays out native
\* currency, whether or not the router custodies the output
encodeBoostedExactInput_UnwrapsNativeItself(trade, options, k, routerMustCustody) ==
    Added([i \in 1..Len(trade.swaps[k].route.steps) |->
              BoostedStepCmd(trade, options, k, routerMustCustody, i)])
    \o (IF IsNative(trade.swaps[k].route.output)
        THEN <<Cmd(UNWRAP_WETH, <<options.recipient, 0>>, k, 0)>>
        ELSE <<>>)

\* encodeBoostedExactInput: the step commands, then the native unwrap when the
\* route pays out native currency and the router does not custody
encodeBoostedExactInput(trade, options, k, routerMustCustody) ==
    LET route == trade.swaps[k].route
        shouldUnwrapOutput == IsNative(route.output) /\ ~routerMustCustody
    IN  Added([i \in 1..Len(route.steps) |->
                  BoostedStepCmd(trade, options, k, routerMustCustody, i)])
        \o (IF shouldUnwrapOutput
            THEN <<Cmd(UNWRAP_WETH, <<options.recipient, 0>>, k, 0)>>
            ELSE <<>>)

\* encodeBoostedExactOutput: one INTEGRAL_SWAP_EXACT_OUT with the boosted path
encodeBoostedExactOutput(trade, options, k, routerMustCustody) ==
    <<Cmd(INTEGRAL_SWAP_EXACT_OUT,
          <<IF routerMustCustody THEN ROUTER_AS_RECIPIENT ELSE options.recipient,
            trade.swaps[k].outputAmount,
            maximumAmountIn(trade, options.slippageTolerance),
            encodeBoostedRouteExactOutput(trade.swaps[k].route.steps),
            SOURCE_ROUTER>>, k, 0)>>

addIntegralBoostedSwap(trade, options, k, routerMustCustody) ==
    IF trade.tradeType = EXACT_INPUT
    THEN encodeBoostedExactInput(trade, options, k, routerMustCustody)
    ELSE encodeBoostedExactOutput(trade, options, k, routerMustCustody)

performAggregatedSlippageCheck(trade) ==
    trade.tradeType = EXACT_INPUT /\ Len(trade.swaps) > 2

routerMustCustody(trade) ==
    performAggregatedSlippageCheck(trade) \/ outputRequiresUnwrap(trade)

SupportedProtocols ==
    {Protocol.V2, Protocol.V3, Protocol.INTEGRAL, Protocol.INTEGRAL_BOOSTED}

\* encode, lines 93-111: the switch on route.protocol for swap k
swapCommands(trade, options, k) ==
    LET protocol == trade.swaps[k].route.protocol
    IN  CASE protocol = Protocol.V2 ->
               addV2Swap(trade, options, k, routerMustCustody(trade))
          [] protocol = Protocol.V3 ->
               addV3Swap(trade, options, k, routerMustCustody(trade))
          [] protocol = Protocol.INTEGRAL ->
               addIntegralSwap(trade, options, k, routerMustCustody(trade))
          [] protocol = Protocol.INTEGRAL_BOOSTED ->
               addIntegralBoostedSwap(trade, options, k, routerMustCustody(trade))

\* encode, lines 90-112: the loop over trade.swaps from swap k on; it stops
\* with a throw at the first swap whose protocol is MIXED or unknown
RECURSIVE swapLoop(_, _, _)
swapLoop(trade, options, k) ==
    IF k > Len(trade.swaps) THEN [cmds |-> <<>>, threw |-> FALSE]
    ELSE IF trade.swaps[k].route.protocol \notin SupportedProtocols
    THEN [cmds |-> <<>>, threw |-> TRUE]
    ELSE LET rest == swapLoop(trade, options, k + 1)
         IN  [cmds |-> swapCommands(trade, options, k) \o rest.cmds,
              threw |-> rest.threw]

\* encode without the refund (lines 131-143 left out)
refundUnusedInput_None(trade, options) == <<>>

\* encode that pays out with a zero minimum
payOutput_ZeroMin(trade, options) ==
    IF routerMustCustody(trade)
    THEN IF outputRequiresUnwrap(trade)
         THEN <<Cmd(UNWRAP_WETH, <<options.recipient, 0>>, 0, 0)>>
         ELSE IF performAggregatedSlippageCheck(trade)
         THEN <<Cmd(SWEEP, <<Address(Wrapped(trade.output)), options.recipient, 0>>,
                    0, 0)>>
         ELSE <<>>
    ELSE <<>>

\* encode, lines 115-129: unwrap or sweep the output the router holds
payOutput(trade, options) ==
    IF routerMustCustody(trade)
    THEN IF outputRequiresUnwrap(trade)
         THEN <<Cmd(UNWRAP_WETH,
                    <<options.recipient,
                      minimumAmountOut(trade, options.slippageTolerance)>>, 0, 0)>>
         ELSE IF performAggregatedSlippageCheck(trade)
         THEN <<Cmd(SWEEP,
                    <<Address(Wrapped(trade.output)), options.recipient,
                      minimumAmountOut(trade, options.slippageTolerance)>>, 0, 0)>>
         ELSE <<>>
    ELSE <<>>

\* a refund that sweeps the output token instead of the input
refundUnusedInput_SweepOutput(trade, options) ==
    IF trade.tradeType = EXACT_OUTPUT
    THEN <<Cmd(SWEEP, <<Address(Wrapped(trade.output)), options.recipient, 0>>, 0, 0)>>
    ELSE <<>>

\* encode, lines 132-143: for exact output, return the unused input
refundUnusedInput(trade, options) ==
    IF trade.tradeType = EXACT_OUTPUT
    THEN IF inputRequiresWrap(trade)
         THEN <<Cmd(UNWRAP_WETH, <<options.recipient, 0>>, 0, 0)>>
         ELSE <<Cmd(SWEEP, <<Address(Wrapped(trade.input)), options.recipient, 0>>,
                    0, 0)>>
    ELSE <<>>

\* variant: the swaps are encoded before the default recipient is set
encodeCalls_LateRecipientDefault(trade, options) ==
    LET defaulted == [options EXCEPT !.recipient =
                         IF @ = UNDEFINED THEN SENDER_AS_RECIPIENT ELSE @]
        loop == swapLoop(trade, options, 1)
    IN  [cmds |-> transferIn(trade, options) \o loop.cmds
                    \o (IF loop.threw THEN <<>>
                        ELSE payOutput(trade, defaulted)
                               \o refundUnusedInput(trade, defaulted)),
         options |-> defaulted,
         threw |-> loop.threw]

\* the addCommand calls of encode, in order, the options as encode leaves
\* them (line 82 sets the default recipient), and whether encode threw
encodeCalls(trade, options) ==
    LET defaulted == [options EXCEPT !.recipient =
                         IF @ = UNDEFINED THEN SENDER_AS_RECIPIENT ELSE @]
        loop == swapLoop(trade, defaulted, 1)
    IN  [cmds |-> transferIn(trade, options) \o loop.cmds
                    \o (IF loop.threw THEN <<>>
                        ELSE payOutput(trade, defaulted)
                               \o refundUnusedInput(trade, defaulted)),
         options |-> defaulted,
         threw |-> loop.threw]

\* planner.addCommand for each call from the i-th on
RECURSIVE addAll(_, _, _)
addAll(p, cmds, i) ==
    IF i > Len(cmds) THEN p
    ELSE addAll(addCommand(p, cmds[i].type, cmds[i].parameters, FALSE).planner,
                cmds, i + 1)

\* OmegaEncoder.encode(planner)
encode(planner, trade, options) ==
    LET r == encodeCalls(trade, options)
    IN  [planner |-> addAll(planner, r.cmds, 1), calls |-> r.cmds,
         options |-> r.options, threw |-> r.threw]

(***************************************************************************)
(* OmegaRouter.swapCallParameters (the class at OmegaQuoter.ts 1022)       *)
(***************************************************************************)
\* encodePermit(permit): the signature bytes of the permit
encodePermit(permit) == <<"signature", permit>>

\* the digits of n in base 16, most significant first
RECURSIVE HexDigits(_)
HexDigits(n) == IF n < 16 THEN <<n>> ELSE Append(HexDigits(n \div 16), n % 16)

\* BigNumber.toHexString(): hexadecimal digits, zero-padded to whole bytes
toHexString(n) ==
    LET d == HexDigits(n)
    IN  IF Len(d) % 2 = 1 THEN <<0>> \o d ELSE d

\* options.deadline left undefined; `options.deadline ? ... : undefined` treats
\* a deadline of 0 the same way
NO_DEADLINE == 0

\* what a call leaves behind when it throws: no calldata, no value
NoCalldata == [functionSignature |-> "", parameters |-> <<>>]

Thrown(message, options) ==
    [threw |-> message, calldata |-> NoCalldata, value |-> <<>>,
     planner |-> EmptyPlanner, calls |-> <<>>, options |-> options]

\* encodePlan(planner, nativeCurrencyValue, config): encodeFunctionData of the
\* execute overload, as the signature with its arguments
encodePlan(planner, nativeCurrencyValue, deadline) ==
    [calldata |->
        IF deadline # NO_DEADLINE
        THEN [functionSignature |-> "execute(bytes,bytes[],uint256)",
              parameters |-> <<planner.commands, planner.inputs, deadline>>]
        ELSE [functionSignature |-> "execute(bytes,bytes[])",
              parameters |-> <<planner.commands, planner.inputs>>],
     value |-> toHexString(nativeCurrencyValue)]

\* variant: the NATIVE_INPUT_PERMIT invariant is not checked
swapCallParameters_NoNativePermitCheck(trade, options) ==
    LET isNative == IsNative(trade.input)
        hasPermit == options.inputTokenPermit # UNDEFINED
    IN  IF ~(~isNative \/ hasPermit)
        THEN Thrown("MISSING_INPUT_PERMIT", options)
        ELSE LET planner ==
                     IF hasPermit
                     THEN addCommand(EmptyPlanner, PERMIT2_PERMIT,
                                     <<options.inputTokenPermit,
                                       encodePermit(options.inputTokenPermit)>>,
                                     FALSE).planner
                     ELSE EmptyPlanner
                 nativeCurrencyValue ==
                     IF isNative
                     THEN maximumAmountIn(trade, options.slippageTolerance)
                     ELSE 0
             IN  CHOOSE r \in
                     { IF e.threw
                       THEN [Thrown("UNSUPPORTED_PROTOCOL", e.options) EXCEPT
                                !.planner = e.planner, !.calls = e.calls]
                       ELSE [threw |-> "",
                             calldata |-> encodePlan(e.planner, nativeCurrencyValue,
                                                     options.deadline).calldata,
                             value |-> encodePlan(e.planner, nativeCurrencyValue,
                                                  options.deadline).value,
                             planner |-> e.planner, calls |-> e.calls,
                             options |-> e.options] :
                       e \in {encode(planner, trade, options)} } : TRUE

\* swapCallParameters(trade, options): a new planner, the two invariants, the
\* permit command, the native value, encode, encodePlan. The record holds what
\* is returned (calldata, value) or the message thrown, the planner of the
\* call, and the options object as the call leaves it.
swapCallParameters(trade, options) ==
    LET isNative == IsNative(trade.input)
        hasPermit == options.inputTokenPermit # UNDEFINED
    IN  IF isNative /\ hasPermit
        THEN Thrown("NATIVE_INPUT_PERMIT", options)
        ELSE IF ~(~isNative \/ hasPermit)
        THEN Thrown("MISSING_INPUT_PERMIT", options)
        ELSE LET planner ==
                     IF hasPermit
                     THEN addCommand(EmptyPlanner, PERMIT2_PERMIT,
                                     <<options.inputTokenPermit,
                                       encodePermit(options.inputTokenPermit)>>,
                                     FALSE).planner
                     ELSE EmptyPlanner
                 nativeCurrencyValue ==
                     IF isNative
                     THEN maximumAmountIn(trade, options.slippageTolerance)
                     ELSE 0
             IN  CHOOSE r \in
                     { IF e.threw
                       THEN [Thrown("UNSUPPORTED_PROTOCOL", e.options) EXCEPT
                                !.planner = e.planner, !.calls = e.calls]
                       ELSE [threw |-> "",
                             calldata |-> encodePlan(e.planner, nativeCurrencyValue,
                                                     options.deadline).calldata,
                             value |-> encodePlan(e.planner, nativeCurrencyValue,
                                                  options.deadline).value,
                             planner |-> e.planner, calls |-> e.calls,
                             options |-> e.options] :
                       e \in {encode(planner, trade, options)} } : TRUE

(***************************************************************************)
(* OmegaTrade, the step-driven encoder of one Integral or boosted route    *)
(* (entities/OmegaTrade.ts)                                                *)
(***************************************************************************)
ROUTER_ADDRESS == "ROUTER_ADDRESS"

\* the number of SWAP steps among the first i steps
RECURSIVE SwapCount(_, _)
SwapCount(steps, i) ==
    IF i = 0 THEN 0
    ELSE SwapCount(steps, i - 1) + (IF steps[i].type = SWAP THEN 1 ELSE 0)

transferInputToken(tokenAddress, amount, isNative) ==
    IF isNative THEN <<Cmd(WRAP_ETH, <<ADDRESS_THIS, amount>>, 0, 0)>>
    ELSE <<Cmd(PERMIT2_TRANSFER_FROM, <<tokenAddress, ROUTER_ADDRESS, amount>>, 0, 0)>>

unwrapOutputIfNative(recipient, isNative) ==
    IF isNative THEN <<Cmd(UNWRAP_WETH, <<recipient, 0>>, 0, 0)>> ELSE <<>>

sweepUnusedInput(tokenAddress, recipient, isNative) ==
    IF isNative THEN <<Cmd(UNWRAP_WETH, <<recipient, 0>>, 0, 0)>>
    ELSE <<Cmd(SWEEP, <<tokenAddress, recipient, 0>>, 0, 0)>>

\* encodeStep for step i of the route; the switch has no default case, so a
\* step of any other type adds no command
encodeStep(step, amountIn, amountOut, minAmountOut, recipient, exactOutput, i) ==
    CASE step.type = WRAP ->
           Cmd(ERC4626_WRAP,
               <<Address(step.tokenOut), Address(step.tokenIn), recipient, amountIn,
                 minAmountOut>>, 1, i)
      [] step.type = UNWRAP ->
           Cmd(ERC4626_UNWRAP,
               <<Address(step.tokenIn), recipient, amountIn, minAmountOut>>, 1, i)
      [] step.type = SWAP ->
           IF exactOutput
           THEN Cmd(INTEGRAL_SWAP_EXACT_OUT,
                    <<recipient, amountOut, amountIn,
                      encodeRouteToPath(<<step.tokenIn, step.tokenOut>>, TRUE),
                      SOURCE_ROUTER>>, 1, i)
           ELSE Cmd(INTEGRAL_SWAP_EXACT_IN,
                    <<recipient, amountIn, minAmountOut,
                      encodeRouteToPath(<<step.tokenIn, step.tokenOut>>, FALSE),
                      SOURCE_ROUTER>>, 1, i)
      [] OTHER -> NoCmd

\* unwindIntermediateTokens: the steps from index i down to the first; a WRAP
\* is undone by an UNWRAP of the balance, an UNWRAP by a WRAP, a SWAP is skipped
RECURSIVE unwindFrom(_, _)
unwindFrom(steps, i) ==
    IF i < 1 THEN <<>>
    ELSE (CASE steps[i].type = WRAP ->
                 <<Cmd(ERC4626_UNWRAP,
                       <<Address(steps[i].tokenOut), ADDRESS_THIS, CONTRACT_BALANCE, 0>>,
                       0, 0)>>
            [] steps[i].type = UNWRAP ->
                 <<Cmd(ERC4626_WRAP,
                       <<Address(steps[i].tokenIn), Address(steps[i].tokenOut),
                         ADDRESS_THIS, CONTRACT_BALANCE, 0>>, 0, 0)>>
            [] OTHER -> <<>>)
         \o unwindFrom(steps, i - 1)

\* variant: only the WRAP steps are undone
unwindIntermediateTokens_WrapsOnly(steps) ==
    SelectSeq(unwindFrom(steps, Len(steps) - 1), LAMBDA c : c.type = ERC4626_UNWRAP)

unwindIntermediateTokens(steps) == unwindFrom(steps, Len(steps) - 1)

\* OmegaTrade.encodeRegularRoute
encodeRegularRoute(trade, options) ==
    LET route == trade.swaps[1].route
        exactInput == trade.tradeType = EXACT_INPUT
        path == encodeRouteToPath(route.tokenPath, ~exactInput)
        swapRecipient == IF IsNative(route.output) THEN ADDRESS_THIS
                         ELSE options.recipient
    IN  IF exactInput
        THEN transferInputToken(Address(Wrapped(route.input)), inputAmount(trade),
                                IsNative(route.input))
             \o <<Cmd(INTEGRAL_SWAP_EXACT_IN,
                      <<swapRecipient, inputAmount(trade),
                        minimumAmountOut(trade, options.slippageTolerance), path,
                        FALSE>>, 1, 0)>>
             \o unwrapOutputIfNative(options.recipient, IsNative(route.output))
        ELSE transferInputToken(Address(Wrapped(route.input)),
                                maximumAmountIn(trade, options.slippageTolerance),
                                IsNative(route.input))
             \o <<Cmd(INTEGRAL_SWAP_EXACT_OUT,
                      <<swapRecipient, outputAmount(trade),
                        maximumAmountIn(trade, options.slippageTolerance), path,
                        FALSE>>, 1, 0)>>
             \o unwrapOutputIfNative(options.recipient, IsNative(route.output))
             \o sweepUnusedInput(Address(Wrapped(route.input)), options.recipient,
                                 IsNative(route.input))

\* the recipient of step i of a boosted route in OmegaTrade
stepRecipientOf(route, recipient, i) ==
    IF i = Len(route.steps)
    THEN (IF IsNative(route.output) THEN ADDRESS_THIS ELSE recipient)
    ELSE ADDRESS_THIS

\* OmegaTrade.encodeBoostedExactInput
OmegaTrade_encodeBoostedExactInput(trade, options) ==
    LET route == trade.swaps[1].route
        steps == route.steps
        amount == inputAmount(trade)
        minAmountOut == minimumAmountOut(trade, options.slippageTolerance)
    IN  transferInputToken(Address(Wrapped(route.input)), amount, IsNative(route.input))
        \o Added([i \in 1..Len(steps) |->
               encodeStep(steps[i],
                          IF i = 1 THEN amount ELSE CONTRACT_BALANCE,
                          0,
                          IF i = Len(steps) THEN minAmountOut ELSE 0,
                          stepRecipientOf(route, options.recipient, i),
                          FALSE, i)])
        \o unwrapOutputIfNative(options.recipient, IsNative(route.output))

\* OmegaTrade.encodeBoostedExactOutput: both validations come before the first
\* addCommand
OmegaTrade_encodeBoostedExactOutput(trade, options) ==
    LET route == trade.swaps[1].route
        steps == route.steps
        stepAmountsOut == options.stepAmountsOut
        maxAmountIn == maximumAmountIn(trade, options.slippageTolerance)
        minAmountOut == minimumAmountOut(trade, options.slippageTolerance)
    IN  IF SwapCount(steps, Len(steps)) # 1 \/ Len(stepAmountsOut) # Len(steps)
        THEN [cmds |-> <<>>, threw |-> TRUE]
        ELSE [cmds |->
                 transferInputToken(Address(Wrapped(route.input)), maxAmountIn,
                                    IsNative(route.input))
                 \o Added([i \in 1..Len(steps) |->
                        encodeStep(steps[i],
                                   IF i = 1 THEN maxAmountIn ELSE CONTRACT_BALANCE,
                                   stepAmountsOut[i],
                                   IF i = Len(steps) THEN minAmountOut ELSE 0,
                                   stepRecipientOf(route, options.recipient, i),
                                   steps[i].type = SWAP, i)])
                 \o unwrapOutputIfNative(options.recipient, IsNative(route.output))
                 \o unwindIntermediateTokens(steps)
                 \o sweepUnusedInput(Address(Wrapped(route.input)), options.recipient,
                                     IsNative(route.input)),
              threw |-> FALSE]

\* OmegaTrade.encode(planner): the first route of the trade decides
OmegaTrade_encode(planner, trade, options) ==
    LET route == trade.swaps[1].route
        r == IF route.isBoosted
             THEN IF trade.tradeType = EXACT_INPUT
                  THEN [cmds |-> OmegaTrade_encodeBoostedExactInput(trade, options),
                        threw |-> FALSE]
                  ELSE OmegaTrade_encodeBoostedExactOutput(trade, options)
             ELSE [cmds |-> encodeRegularRoute(trade, options), threw |-> FALSE]
    IN  [planner |-> addAll(planner, r.cmds, 1), calls |-> r.cmds,
         options |-> options, threw |-> r.threw]

(***************************************************************************)
(* OmegaQuoter (entities/OmegaQuoter.ts, utils/quoterEncoder.ts)           *)
(***************************************************************************)
\* getRouteType(route): one instanceof test per supported route class; it
\* throws for a route of no such class
getRouteType(route) ==
    IF route.protocol \in {Protocol.V2, Protocol.V3, Protocol.INTEGRAL,
                           Protocol.INTEGRAL_BOOSTED}
    THEN [threw |-> FALSE, type |-> route.protocol]
    ELSE [threw |-> TRUE, type |-> ""]

\* OmegaQuoter.encodeBoostedStep(step, amount, exactInput)
encodeBoostedStep(step, amount, exactInput) ==
    CASE step.type = WRAP ->
           [command |-> "ERC4626_WRAP", input |-> <<Address(step.tokenOut), amount>>]
      [] step.type = UNWRAP ->
           [command |-> "ERC4626_UNWRAP", input |-> <<Address(step.tokenIn), amount>>]
      [] step.type = SWAP ->
           [command |-> IF exactInput THEN "INTEGRAL_SWAP_EXACT_IN"
                        ELSE "INTEGRAL_SWAP_EXACT_OUT",
            input |-> <<amount,
                        encodeRouteToPath(<<step.tokenIn, step.tokenOut>>, ~exactInput)>>]

\* OmegaQuoter.buildCommands(route, amount, exactInput) with the builder of
\* each route type; QuoterCommandType members by name
buildCommands(route, amount, exactInput) ==
    LET routeType == getRouteType(route)
        one(command, path) ==
            [threw |-> FALSE, commands |-> <<command>>, inputs |-> << <<amount, path>> >>]
        steps == route.steps
    IN  IF routeType.threw THEN [threw |-> TRUE, commands |-> <<>>, inputs |-> <<>>]
        ELSE CASE routeType.type = Protocol.V2 ->
                    one(IF exactInput THEN "V2_SWAP_EXACT_IN" ELSE "V2_SWAP_EXACT_OUT",
                        encodeRouteToPath(route.tokenPath, ~exactInput).tokens)
               [] routeType.type = Protocol.V3 ->
                    one(IF exactInput THEN "UNISWAP_V3_SWAP_EXACT_IN"
                        ELSE "UNISWAP_V3_SWAP_EXACT_OUT",
                        encodeRouteToPath(route.tokenPath, ~exactInput))
               [] routeType.type = Protocol.INTEGRAL ->
                    IF exactInput
                    THEN one("INTEGRAL_SWAP_EXACT_IN",
                             encodeRouteToPath(route.tokenPath, FALSE))
                    ELSE one("INTEGRAL_SWAP_EXACT_OUT", encodeIntegralExactOut(route))
               [] routeType.type = Protocol.INTEGRAL_BOOSTED ->
                    IF exactInput
                    THEN [threw |-> FALSE,
                          commands |->
                             [i \in 1..Len(steps) |->
                                encodeBoostedStep(steps[i],
                                   IF i = 1 THEN amount ELSE CONTRACT_BALANCE,
                                   TRUE).command],
                          inputs |->
                             [i \in 1..Len(steps) |->
                                encodeBoostedStep(steps[i],
                                   IF i = 1 THEN amount ELSE CONTRACT_BALANCE,
                                   TRUE).input]]
                    ELSE IF Len(route.pools) = 0
                    THEN [threw |-> FALSE,
                          commands |->
                             <<encodeBoostedStep(steps[1], amount, FALSE).command>>,
                          inputs |->
                             <<encodeBoostedStep(steps[1], amount, FALSE).input>>]
                    ELSE one("INTEGRAL_SWAP_EXACT_OUT",
                             encodeBoostedRouteExactOutput(steps))

\* the null entry of a quote list, and a QuoteResult
NullQuote ==
    [isNull |-> TRUE, amountsOut |-> <<>>, amountsIn |-> <<>>, sqrtPrices |-> <<>>,
     gasEstimate |-> 0]

\* decodeSwapOutput(data): (amount, sqrtPrices, gasEstimate); decodeAbiParameters
\* throws on bytes that do not hold the three values
decodeSwapOutput(data) ==
    [threw |-> data.kind # "swap", amount |-> data.amount,
     sqrtPrices |-> data.sqrtPrices, gasEstimate |-> data.gasEstimate]

\* decodeAmountOutput(data): the first word; it throws on bytes shorter than
\* one word
decodeAmountOutput(data) == [threw |-> data.kind = "bad", amount |-> data.amount]

\* variant: the gas of every output is added, vault steps included
RECURSIVE GasOfSwaps_AllSteps(_, _, _)
GasOfSwaps_AllSteps(outputs, steps, i) ==
    IF i = 0 THEN 0
    ELSE GasOfSwaps_AllSteps(outputs, steps, i - 1) + outputs[i].gasEstimate

\* gasEstimate += gas over the SWAP steps among outputs 1..i
RECURSIVE GasOfSwaps(_, _, _)
GasOfSwaps(outputs, steps, i) ==
    IF i = 0 THEN 0
    ELSE GasOfSwaps(outputs, steps, i - 1)
         + (IF steps[i].type = SWAP THEN outputs[i].gasEstimate ELSE 0)

\* OmegaQuoter.parseResult(route, outputs, exactInput), with parseSwapOutput
\* and parseBoostedExactInOutput; threw stands for any exception: a failed
\* decode, outputs[0] missing, or more outputs than steps
parseResult(route, outputs, exactInput) ==
    LET routeType == getRouteType(route)
        steps == route.steps
        threwResult == [threw |-> TRUE, quote |-> NullQuote]
    IN  IF routeType.threw THEN threwResult
        ELSE IF routeType.type = Protocol.INTEGRAL_BOOSTED /\ exactInput
        THEN IF \/ Len(outputs) > Len(steps)
                \/ \E i \in 1..Len(outputs) :
                      IF steps[i].type = SWAP THEN decodeSwapOutput(outputs[i]).threw
                      ELSE decodeAmountOutput(outputs[i]).threw
             THEN threwResult
             ELSE [threw |-> FALSE,
                   quote |->
                      [isNull |-> FALSE,
                       amountsOut |-> [i \in 1..Len(outputs) |-> outputs[i].amount],
                       amountsIn |-> <<>>,
                       sqrtPrices |->
                          [i \in 1..Len(outputs) |->
                             IF steps[i].type = SWAP THEN outputs[i].sqrtPrices
                             ELSE <<0>>],
                       gasEstimate |-> GasOfSwaps(outputs, steps, Len(outputs))]]
        ELSE IF Len(outputs) = 0 THEN threwResult
        ELSE IF decodeSwapOutput(outputs[1]).threw THEN threwResult
        ELSE [threw |-> FALSE,
              quote |->
                 [isNull |-> FALSE,
                  amountsOut |-> IF exactInput THEN <<outputs[1].amount>> ELSE <<>>,
                  amountsIn |-> IF exactInput THEN <<>> ELSE <<outputs[1].amount>>,
                  sqrtPrices |-> <<outputs[1].sqrtPrices>>,
                  gasEstimate |-> outputs[1].gasEstimate]]

\* what batchQuote / quote leave the caller with: a rejected promise, or a
\* promise resolved to a list of entries (quote resolves to one entry)
Rejected == [rejected |-> TRUE, entries |-> <<>>]

Resolved(entries) == [rejected |-> FALSE, entries |-> entries]

\* batchQuote(routes, amount, exactInput); multicall is what client.multicall
\* does: it rejects, or resolves to one result per call
batchQuote(routes, amount, exactInput, multicall) ==
    IF Len(routes) = 0 THEN Resolved(<<>>)
    ELSE IF \E i \in 1..Len(routes) : buildCommands(routes[i], amount, exactInput).threw
    THEN Rejected
    ELSE IF multicall.rejected THEN Rejected
    ELSE Resolved(
            [index \in 1..Len(multicall.results) |->
               LET result == multicall.results[index]
                   parsed == parseResult(routes[index], result.result, exactInput)
               IN  IF result.status = "failure" \/ ~result.defined THEN NullQuote
                   ELSE IF parsed.threw THEN NullQuote
                   ELSE parsed.quote])

\* quote(route, amount, exactInput): everything runs inside try, and the catch
\* block returns null; simulate is what client.simulateContract does
quote(route, amount, exactInput, simulate) ==
    LET built == buildCommands(route, amount, exactInput)
        parsed == parseResult(route, simulate.result, exactInput)
    IN  IF built.threw THEN Resolved(<<NullQuote>>)
        ELSE IF simulate.status = "failure" \/ ~simulate.defined
        THEN Resolved(<<NullQuote>>)
        ELSE IF parsed.threw THEN Resolved(<<NullQuote>>)
        ELSE Resolved(<<parsed.quote>>)

(***************************************************************************)
(* The router's execution of a plan: the balances the router holds         *)
(***************************************************************************)
\* the token with address a
TokenAt(a) == CHOOSE t \in Tokens : Address(t) = a

NoBalance == [t \in Tokens |-> 0]

\* the amount a command spends: the whole balance for the balance sentinel
Resolve(amount, balance) == IF amount = CONTRACT_BALANCE THEN balance ELSE amount

\* tokens sent to the router itself stay in its balance; tokens sent to any
\* other recipient leave it
Credit(b, recipient, token, amount) ==
    IF recipient \in {ADDRESS_THIS, ROUTER_ADDRESS} THEN [b EXCEPT ![token] = @ + amount]
    ELSE b

Reverted(b) == [bal |-> b, ok |-> FALSE]

\* spend amountIn of tin from the router, deliver r times as much of tout
ExecExactIn(b, recipient, amountIn, minOut, tin, tout, r) ==
    LET amt == Resolve(amountIn, b[tin])
    IN  IF amt > b[tin] \/ amt * r < minOut THEN Reverted(b)
        ELSE [bal |-> Credit([b EXCEPT ![tin] = @ - amt], recipient, tout, amt * r),
              ok |-> TRUE]

\* deliver amountOut of tout, spend the 1/r of it (rounded up) of tin
ExecExactOut(b, recipient, amountOut, maxIn, tin, tout, r) ==
    LET need == (amountOut + r - 1) \div r
    IN  IF need > maxIn \/ need > b[tin] THEN Reverted(b)
        ELSE [bal |-> Credit([b EXCEPT ![tin] = @ - need], recipient, tout, amountOut),
              ok |-> TRUE]

\* pay the router's whole balance of token out, at least min
ExecSweep(b, token, min) ==
    IF b[token] < min THEN Reverted(b)
    ELSE [bal |-> [b EXCEPT ![token] = 0], ok |-> TRUE]

\* the router executes one command with the decoded input v at rate r
Execute(b, type, v, r) ==
    CASE type = WRAP_ETH ->
           [bal |-> Credit(b, v[1], "WETH", v[2]), ok |-> TRUE]
      [] type = PERMIT2_TRANSFER_FROM ->
           [bal |-> Credit(b, v[2], TokenAt(v[1]), v[3]), ok |-> TRUE]
      [] type \in {V2_SWAP_EXACT_IN, V2_SWAP_EXACT_OUT} ->
           IF type = V2_SWAP_EXACT_IN
           THEN ExecExactIn(b, v[1], v[2], v[3], TokenAt(v[4][1]),
                            TokenAt(v[4][Len(v[4])]), r)
           ELSE ExecExactOut(b, v[1], v[2], v[3], TokenAt(v[4][1]),
                             TokenAt(v[4][Len(v[4])]), r)
      [] type \in {UNISWAP_V3_SWAP_EXACT_IN, INTEGRAL_SWAP_EXACT_IN} ->
           ExecExactIn(b, v[1], v[2], v[3], TokenAt(v[4].tokens[1]),
                       TokenAt(v[4].tokens[Len(v[4].tokens)]), r)
      [] type = UNISWAP_V3_SWAP_EXACT_OUT ->
           ExecExactOut(b, v[1], v[2], v[3], TokenAt(v[4].tokens[Len(v[4].tokens)]),
                        TokenAt(v[4].tokens[1]), r)
      [] type = INTEGRAL_SWAP_EXACT_OUT ->
           LET hopList == decodeBoostedPathExactOutput(v[4])
           IN  IF Len(hopList) = 0 THEN Reverted(b)
               ELSE ExecExactOut(b, v[1], v[2], v[3],
                                 TokenAt(hopList[Len(hopList)].tokenIn),
                                 TokenAt(hopList[1].tokenOut), r)
      [] type = ERC4626_WRAP ->
           ExecExactIn(b, v[3], v[4], v[5], TokenAt(v[2]), TokenAt(v[1]), r)
      [] type = ERC4626_UNWRAP ->
           ExecExactIn(b, v[2], v[3], v[4], TokenAt(v[1]),
                       Underlying(TokenAt(v[1])), r)
      [] type = SWEEP -> ExecSweep(b, TokenAt(v[1]), v[3])
      [] type = UNWRAP_WETH -> ExecSweep(b, "WETH", v[2])
      [] OTHER -> Reverted(b)

(***************************************************************************)
(* OmegaRouter.addCallParameters (entities/OmegaQuoter.ts)                 *)
(***************************************************************************)
\* CommandType.INTEGRAL_INCREASE_LIQUIDITY, the command addCallParameters adds
\* for an existing position; the enum of utils/routerCommands.ts does not list
\* it, and it is given the first opcode the enum leaves free
INTEGRAL_INCREASE_LIQUIDITY == 21

\* unwrappedToken(token): the native currency for its wrapper, else the token
unwrappedToken(token) == IF token = "WETH" THEN "ETH" ELSE token

\* CurrencyAmount.fromRawAmount(currency, quotient); an amount left undefined
\* has defined = FALSE
CurrencyAmount(currency, quotient) ==
    [defined |-> TRUE, currency |-> currency, quotient |-> quotient]

\* amount.div(10000): the 0.01% buffer
BUFFER_DIVISOR == 10000

\* variant: the buffer is not raised to 1 when it rounds down to 0
applyRoundingBuffer_NoFloorOfOne(amountMin, needsWrap, isBoosted) ==
    IF needsWrap /\ isBoosted /\ amountMin > 0
    THEN amountMin - (amountMin \div BUFFER_DIVISOR)
    ELSE amountMin

\* the rounding buffer applied to amount0Min and to amount1Min
applyRoundingBuffer(amountMin, needsWrap, isBoosted) ==
    IF needsWrap /\ isBoosted /\ amountMin > 0
    THEN LET buffer == amountMin \div BUFFER_DIVISOR
         IN  amountMin - (IF buffer > 0 THEN buffer ELSE 1)
    ELSE amountMin

\* what addCallParameters derives for one token of the pool: the unwrapped
\* token, whether it is wrapped on the way in, the amount pulled from the
\* caller and whether that amount is native currency
MintSide(poolToken, positionAmount, amountUnderlying, permit, useNative) ==
    LET needsWrap == amountUnderlying.defined
        toTransfer == IF needsWrap THEN amountUnderlying
                      ELSE CurrencyAmount(poolToken, positionAmount)
    IN  [token |-> unwrappedToken(poolToken),
         needsWrap |-> needsWrap,
         positionAmount |-> positionAmount,
         toTransfer |-> toTransfer,
         isNative |-> useNative /\ IsNative(unwrappedToken(toTransfer.currency)),
         amountStr |-> toTransfer.quotient,
         permit |-> permit]

\* STEP 1: the Permit2 signature of one token
mintPermit(s) ==
    IF s.permit # UNDEFINED /\ ~s.isNative /\ s.amountStr # 0
    THEN <<Cmd(PERMIT2_PERMIT, <<s.permit, encodePermit(s.permit)>>, 0, 0)>>
    ELSE <<>>

\* STEP 2: the transfer of one token to the router
mintTransfer(s) ==
    IF s.amountStr = 0 THEN <<>>
    ELSE IF s.isNative
    THEN <<Cmd(WRAP_ETH, <<ADDRESS_THIS, s.amountStr>>, 0, 0)>>
    ELSE <<Cmd(PERMIT2_TRANSFER_FROM,
               <<Address(Wrapped(s.toTransfer.currency)), ROUTER_ADDRESS,
                 s.amountStr>>, 0, 0)>>

\* STEP 3: the wrap of one token into its vault
mintWrap(s) ==
    IF s.needsWrap /\ IsVault(s.token) /\ s.amountStr # 0
    THEN <<Cmd(ERC4626_WRAP,
               <<Address(Wrapped(s.token)), Address(Underlying(s.token)),
                 ADDRESS_THIS, s.amountStr, 0>>, 0, 0)>>
    ELSE <<>>

\* STEP 4: the desired amount of one token
mintAmountDesired(s) ==
    IF s.needsWrap /\ IsVault(s.token) THEN CONTRACT_BALANCE ELSE s.positionAmount

\* STEP 6: the refund of one token
mintRefund(s, recipient) ==
    IF s.needsWrap /\ IsVault(s.token)
    THEN <<Cmd(ERC4626_UNWRAP,
               <<Address(Wrapped(s.token)),
                 IF s.isNative THEN ADDRESS_THIS ELSE recipient,
                 CONTRACT_BALANCE, 0>>, 0, 0)>>
         \o (IF s.isNative THEN <<Cmd(UNWRAP_WETH, <<recipient, 0>>, 0, 0)>>
             ELSE <<>>)
    ELSE IF s.isNative
    THEN <<Cmd(UNWRAP_WETH, <<recipient, 0>>, 0, 0)>>
    ELSE <<Cmd(SWEEP, <<Address(Wrapped(s.token)), recipient, 0>>, 0, 0)>>

\* OmegaRouter.addCallParameters(position, options)
addCallParameters(position, options) ==
    LET isIncrease == options.tokenId # UNDEFINED
        s0 == MintSide(position.pool.token0, position.mintAmounts.amount0,
                       options.amount0Underlying, options.token0Permit,
                       options.useNative)
        s1 == MintSide(position.pool.token1, position.mintAmounts.amount1,
                       options.amount1Underlying, options.token1Permit,
                       options.useNative)
        nativeValue ==
            (IF s0.amountStr # 0 /\ s0.isNative THEN s0.amountStr ELSE 0)
            + (IF s1.amountStr # 0 /\ s1.isNative THEN s1.amountStr ELSE 0)
        amount0Min == applyRoundingBuffer(position.mintAmountsWithSlippage.amount0,
                                          s0.needsWrap, IsVault(s0.token))
        amount1Min == applyRoundingBuffer(position.mintAmountsWithSlippage.amount1,
                                          s1.needsWrap, IsVault(s1.token))
        liquidity ==
            IF isIncrease
            THEN Cmd(INTEGRAL_INCREASE_LIQUIDITY,
                     << <<options.tokenId, mintAmountDesired(s0),
                          mintAmountDesired(s1), amount0Min, amount1Min,
                          options.deadline>> >>, 0, 0)
            ELSE Cmd(INTEGRAL_MINT,
                     << <<Address(Wrapped(s0.token)), Address(Wrapped(s1.token)),
                          IF options.deployer # UNDEFINED THEN options.deployer
                          ELSE ADDRESS_ZERO,
                          position.tickLower, position.tickUpper,
                          mintAmountDesired(s0), mintAmountDesired(s1),
                          amount0Min, amount1Min, options.recipient,
                          options.deadline>> >>, 0, 0)
        cmds == mintPermit(s0) \o mintPermit(s1)
                \o mintTransfer(s0) \o mintTransfer(s1)
                \o mintWrap(s0) \o mintWrap(s1)
                \o <<liquidity>>
                \o mintRefund(s0, options.recipient)
                \o mintRefund(s1, options.recipient)
    IN  CHOOSE r \in { [threw |-> "",
                        calldata |-> encodePlan(p, nativeValue,
                                                options.deadline).calldata,
                        value |-> encodePlan(p, nativeValue,
                                             options.deadline).value,
                        planner |-> p, calls |-> c] :
                       <<p, c>> \in {<<addAll(EmptyPlanner, cmds, 1), cmds>>} } : TRUE

(***************************************************************************)
(* State                                                                   *)
(***************************************************************************)
PlannerIds == {"main", "sub"}

NoCall ==
    [op |-> "none", target |-> "main", sub |-> "main", type |-> 0,
     allowRevert |-> FALSE, threw |-> FALSE]

VARIABLES
    planners,   \* the RoutePlanner objects, by identity: "main" and "sub"
    call,       \* the last addCommand / addSubPlan call and its outcome
    supplied,   \* per planner: the inputs supplied with its successful appends
    nCalls,     \* number of calls made so far
    hops,       \* path encoder: the hop list handed to the byte encoder
    encoded,    \* path encoder: the bytes it returned
    decoded,    \* path encoder: the hop list parsed back from the bytes
    pathPc,     \* path encoder: "start", "encoded" or "decoded"
    trade,      \* OmegaEncoder: this.trade
    options,    \* OmegaEncoder: this.options
    plan,       \* OmegaEncoder: the planner handed to encode
    calls,      \* OmegaEncoder: the addCommand calls encode made, in order
    encPc,      \* OmegaEncoder: "start", "encoded" or "threw"
    encoder,    \* the class that was constructed: "OmegaEncoder" or "OmegaTrade"
    bal,        \* router: the token balances it holds while executing the plan
    execIdx,    \* router: the number of commands of the plan executed
    execPc,     \* router: "idle", "running", "done" or "reverted"
    rate,       \* router: the price every swap and vault trades at
    swapTokenIn,  \* determineSwapType: its first argument
    swapTokenOut, \* determineSwapType: its second argument
    swapType,   \* determineSwapType: "none" before the call, then its result
    results,    \* OmegaRouter: what each swapCallParameters / addCallParameters
                \* call returned
    position,   \* OmegaRouter: the position handed to addCallParameters
    quoteArgs,  \* OmegaQuoter: the routes, amount and exactInput of the call
    reply,      \* OmegaQuoter: what the client's multicall / simulation did
    quoted,     \* OmegaQuoter: the promise batchQuote / quote returned
    quotePc     \* OmegaQuoter: "start", "batch" or "single"

plannerVars == <<planners, call, supplied, nCalls>>

pathVars == <<hops, encoded, decoded, pathPc>>

encVars == <<trade, options, plan, calls, encPc, encoder>>

routerVars == <<bal, execIdx, execPc, rate>>

classVars == <<swapTokenIn, swapTokenOut, swapType>>

callVars == <<results, position>>

quoteVars == <<quoteArgs, reply, quoted, quotePc>>

auxVars == <<classVars, callVars, quoteVars>>

vars == <<plannerVars, pathVars, encVars, routerVars, auxVars>>

ClassIdle ==
    /\ swapTokenIn = "A"
    /\ swapTokenOut = "A"
    /\ swapType = "none"

\* no position: addCallParameters is not called
NoPosition ==
    [pool |-> [token0 |-> "A", token1 |-> "B"], tickLower |-> 0, tickUpper |-> 0,
     mintAmounts |-> [amount0 |-> 0, amount1 |-> 0],
     mintAmountsWithSlippage |-> [amount0 |-> 0, amount1 |-> 0]]

CallIdle ==
    /\ results = <<>>
    /\ position = NoPosition

NoReply == [rejected |-> FALSE, results |-> <<>>]

QuoteIdle ==
    /\ quoteArgs = [routes |-> <<>>, amount |-> 0, exactInput |-> TRUE]
    /\ reply = NoReply
    /\ quoted = Resolved(<<>>)
    /\ quotePc = "start"

AuxIdle ==
    /\ ClassIdle
    /\ CallIdle
    /\ QuoteIdle

PlannerIdle ==
    /\ planners = [main |-> EmptyPlanner, sub |-> EmptyPlanner]
    /\ call = NoCall
    /\ supplied = [id \in PlannerIds |-> <<>>]
    /\ nCalls = 0

PathIdle ==
    /\ hops = <<>>
    /\ encoded = <<>>
    /\ decoded = <<>>
    /\ pathPc = "start"

RouterIdle ==
    /\ bal = NoBalance
    /\ execIdx = 0
    /\ execPc = "idle"
    /\ rate = 1

NoTrade == [tradeType |-> EXACT_INPUT, input |-> "A", output |-> "B", swaps |-> <<>>]

EncIdle ==
    /\ trade = NoTrade
    /\ options = [recipient |-> UNDEFINED, slippageTolerance |-> 0,
                  stepAmountsOut |-> <<>>]
    /\ encoder = "OmegaEncoder"
    /\ plan = EmptyPlanner
    /\ calls = <<>>
    /\ encPc = "start"
    /\ RouterIdle

\* a planner that already holds one command, as a sub-plan to wrap
OneCommandPlanner ==
    addCommand(EmptyPlanner, SWEEP, <<0, 0, 0>>, FALSE).planner

InitPlanner ==
    /\ planners \in { [main |-> EmptyPlanner, sub |-> s] :
                        s \in {EmptyPlanner, OneCommandPlanner} }
    /\ call = NoCall
    /\ supplied = [id \in PlannerIds |-> planners[id].inputs]
    /\ nCalls = 0
    /\ AuxIdle
    /\ PathIdle
    /\ EncIdle

\* main.addCommand(type, [nCalls], allowRevert): the parameter value names the call
AddCommand(type, allowRevert) ==
    /\ nCalls < MaxCalls
    /\ LET r == addCommand(planners["main"], type, <<nCalls>>, allowRevert)
       IN  /\ planners' = [planners EXCEPT !["main"] = r.planner]
           /\ call' = [op |-> "addCommand", target |-> "main", sub |-> "main",
                       type |-> type, allowRevert |-> allowRevert, threw |-> r.threw]
           /\ supplied' =
                 IF r.threw THEN supplied
                 ELSE [supplied EXCEPT !["main"] =
                          Append(@, createCommand(type, <<nCalls>>).encodedInput)]
    /\ nCalls' = nCalls + 1
    /\ UNCHANGED <<pathVars, encVars, routerVars, auxVars>>

\* target.addSubPlan(sub); target and sub may be the same object
AddSubPlan(target, sub) ==
    /\ nCalls < MaxCalls
    /\ LET r == addSubPlan(planners[target], planners[sub])
       IN  /\ planners' = [planners EXCEPT ![target] = r.planner]
           /\ call' = [op |-> "addSubPlan", target |-> target, sub |-> sub,
                       type |-> EXECUTE_SUB_PLAN, allowRevert |-> TRUE,
                       threw |-> r.threw]
           /\ supplied' =
                 IF r.threw THEN supplied
                 ELSE [supplied EXCEPT ![target] =
                          Append(@, createCommand(EXECUTE_SUB_PLAN,
                                     <<planners[sub].commands,
                                       planners[sub].inputs>>).encodedInput)]
    /\ nCalls' = nCalls + 1
    /\ UNCHANGED <<pathVars, encVars, routerVars, auxVars>>

NextPlanner ==
    \/ \E type \in CommandType, allowRevert \in BOOLEAN : AddCommand(type, allowRevert)
    \/ \E target \in PlannerIds, sub \in PlannerIds : AddSubPlan(target, sub)

SpecPlanner == InitPlanner /\ [][NextPlanner]_vars

(***************************************************************************)
(* Path encoder as a state machine (SpecPath)                              *)
(***************************************************************************)
\* hop lists handed directly to encodeBoostedPathExactOutput: the tokens of
\* each hop are free, so adjacent hops need not share a token
RawHop(tokenOut, tokenIn, wraps) ==
    [tokenOut |-> tokenOut,
     wrapOut |-> wraps[1],
     poolTokenOut |-> IF wraps[1] = WrapAction.NONE THEN tokenOut ELSE tokenOut + 3,
     deployer |-> IF tokenOut = 1 THEN 9 ELSE ADDRESS_ZERO,
     poolTokenIn |-> IF wraps[2] = WrapAction.NONE THEN tokenIn ELSE tokenIn + 3,
     wrapIn |-> wraps[2],
     tokenIn |-> tokenIn]

RawWraps ==
    { <<WrapAction.NONE, WrapAction.NONE>>, <<WrapAction.UNWRAP, WrapAction.WRAP>>,
      <<WrapAction.WRAP, WrapAction.NONE>> }

RawHops == { RawHop(o, i, w) : o \in 1..3, i \in 1..3, w \in RawWraps }

RawHopLists == UNION { [1..n -> RawHops] : n \in 1..MaxHops }

InitPath ==
    /\ PathIdle
    /\ AuxIdle
    /\ PlannerIdle
    /\ EncIdle

\* encodeBoostedPathExactOutput(hops) on a caller-built hop list
EncodeBoostedPathExactOutput ==
    /\ pathPc = "start"
    /\ \E hopList \in RawHopLists :
          /\ hops' = hopList
          /\ encoded' = encodeBoostedPathExactOutput(hopList)
    /\ pathPc' = "encoded"
    /\ UNCHANGED <<decoded, plannerVars, encVars, routerVars, auxVars>>

\* encodeIntegralRouteExactOutput(route) on a plain Integral route
EncodeIntegralRouteExactOutput ==
    /\ pathPc = "start"
    /\ \E n \in 1..MaxHops : \E q \in TokenPaths(n) :
          /\ hops' = IntegralRouteHops(IntegralRouteOf(q))
          /\ encoded' = encodeIntegralRouteExactOutput(IntegralRouteOf(q))
    /\ pathPc' = "encoded"
    /\ UNCHANGED <<decoded, plannerVars, encVars, routerVars, auxVars>>

\* encodeBoostedRouteExactOutput(route) on a boosted route with a SWAP step
EncodeBoostedRouteExactOutput ==
    /\ pathPc = "start"
    /\ \E n \in 1..MaxSteps : \E q \in TokenPaths(n) :
          /\ \E i \in 1..n : StepsOf(q)[i].type = SWAP
          /\ hops' = BoostedRouteHops(StepsOf(q))
          /\ encoded' = encodeBoostedRouteExactOutput(StepsOf(q))
    /\ pathPc' = "encoded"
    /\ UNCHANGED <<decoded, plannerVars, encVars, routerVars, auxVars>>

\* the swap primitive parses the bytes back into hops
ParsePath ==
    /\ pathPc = "encoded"
    /\ decoded' = decodeBoostedPathExactOutput(encoded)
    /\ pathPc' = "decoded"
    /\ UNCHANGED <<hops, encoded, plannerVars, encVars, routerVars, auxVars>>

NextPath ==
    \/ EncodeBoostedPathExactOutput
    \/ EncodeIntegralRouteExactOutput
    \/ EncodeBoostedRouteExactOutput
    \/ ParsePath

SpecPath == InitPath /\ [][NextPath]_vars

(***************************************************************************)
(* OmegaEncoder.encode and the execution of its plan (SpecEncoder)         *)
(***************************************************************************)
Currencies == Tokens \cup {"ETH"}

\* input / output currency pairs of a trade
Pairs == { p \in Currencies \X Currencies : Wrapped(p[1]) # Wrapped(p[2]) }

\* the pairs used for trades of several routes
MultiPairs ==
    { <<"ETH", "A">>, <<"A", "ETH">>, <<"A", "B">>, <<"vA", "B">>, <<"A", "vB">>,
      <<"vA", "ETH">> }

\* every route between input and output: up to MaxHops pools for the pool
\* protocols, up to MaxSteps steps for boosted routes, one MIXED route
FullCatalog(input, output) ==
    { RouteOf(pr, input, output, q) :
        pr \in {Protocol.V2, Protocol.V3, Protocol.INTEGRAL},
        q \in PathsBetween(input, output, MaxHops) }
    \cup { RouteOf(Protocol.INTEGRAL_BOOSTED, input, output, q) :
             q \in PathsBetween(input, output, MaxSteps) }
    \cup { RouteOf(Protocol.MIXED, input, output, q) :
             q \in PathsBetween(input, output, 1) }

\* the routes used for trades of several routes: the direct route of each
\* protocol and the boosted routes of two steps, one of them a vault step
SmallCatalog(input, output) ==
    { RouteOf(pr, input, output, q) :
        pr \in {Protocol.V3, Protocol.INTEGRAL, Protocol.INTEGRAL_BOOSTED, Protocol.MIXED},
        q \in PathsBetween(input, output, 1) }
    \cup { RouteOf(Protocol.INTEGRAL_BOOSTED, input, output, q) :
             q \in { x \in PathsBetween(input, output, 2) :
                       \E i \in 1..(Len(x) - 1) : StepsOf(x)[i].type # SWAP } }

\* the k-th swap of a trade: its route with the quoted amounts
SwapOf(route, k) ==
    [route |-> route, inputAmount |-> 100 * k, outputAmount |-> 1000 * k]

TradeOf(tradeType, p, routes) ==
    [tradeType |-> tradeType, input |-> p[1], output |-> p[2],
     swaps |-> [k \in 1..Len(routes) |-> SwapOf(routes[k], k)]]

Trades ==
    UNION { { TradeOf(tt, p, <<r>>) : tt \in {EXACT_INPUT, EXACT_OUTPUT},
                                      r \in FullCatalog(p[1], p[2]) } : p \in Pairs }
    \cup UNION { UNION { { TradeOf(tt, p, rs) :
                             tt \in {EXACT_INPUT, EXACT_OUTPUT},
                             rs \in [1..n -> SmallCatalog(p[1], p[2])] } :
                         n \in 2..MaxRoutes } : p \in MultiPairs }

\* slippage tolerances, in basis points
Slippages == {0, 100}

\* OmegaSwapOptions; stepAmountsOut is not one of its fields (<<>>: absent)
OptionsSet ==
    [recipient : {UNDEFINED, "0xRecipient"}, slippageTolerance : Slippages,
     stepAmountsOut : {<<>>}]

\* the trades OmegaTrade is built for: one Integral or boosted route
StepDrivenTrades ==
    { t \in Trades : /\ Len(t.swaps) = 1
                     /\ t.swaps[1].route.protocol \in
                           {Protocol.INTEGRAL, Protocol.INTEGRAL_BOOSTED} }

\* SwapOptions of OmegaTrade: the recipient is given; stepAmountsOut is absent
\* or holds the expected output of each step
StepDrivenOptions ==
    [recipient : {"0xRecipient"}, slippageTolerance : Slippages,
     stepAmountsOut : UNION { [1..n -> {1000}] : n \in 0..MaxSteps }]

\* the prices the router may trade at: the quoted one and a worse one
Rates == {10, 9}

InitEncoder ==
    /\ \/ /\ encoder = "OmegaEncoder"
          /\ trade \in Trades
          /\ options \in OptionsSet
       \/ /\ encoder = "OmegaTrade"
          /\ trade \in StepDrivenTrades
          /\ options \in StepDrivenOptions
    /\ plan = EmptyPlanner
    /\ calls = <<>>
    /\ encPc = "start"
    /\ RouterIdle
    /\ AuxIdle
    /\ PlannerIdle
    /\ PathIdle

\* new OmegaEncoder(trade, options).encode(planner)
Encode ==
    /\ encoder = "OmegaEncoder"
    /\ encPc = "start"
    /\ LET r == encode(plan, trade, options)
       IN  /\ plan' = r.planner
           /\ calls' = r.calls
           /\ options' = r.options
           /\ encPc' = IF r.threw THEN "threw" ELSE "encoded"
    /\ UNCHANGED <<trade, encoder, routerVars, plannerVars, pathVars, auxVars>>

\* new OmegaTrade(trade, options).encode(planner)
OmegaTradeEncode ==
    /\ encoder = "OmegaTrade"
    /\ encPc = "start"
    /\ LET r == OmegaTrade_encode(plan, trade, options)
       IN  /\ plan' = r.planner
           /\ calls' = r.calls
           /\ options' = r.options
           /\ encPc' = IF r.threw THEN "threw" ELSE "encoded"
    /\ UNCHANGED <<trade, encoder, routerVars, plannerVars, pathVars, auxVars>>

\* the router starts executing the plan OmegaEncoder built, holding nothing
StartExecute ==
    /\ encoder = "OmegaEncoder"
    /\ encPc = "encoded"
    /\ execPc = "idle"
    /\ \E r \in Rates : rate' = r
    /\ execPc' = "running"
    /\ UNCHANGED <<bal, execIdx, encVars, plannerVars, pathVars, auxVars>>

\* the router executes the next command; a failing command reverts the whole
\* execution, its balances included
ExecuteCommand ==
    /\ execPc = "running"
    /\ execIdx < Len(plan.commands)
    /\ LET i == execIdx + 1
           r == Execute(bal, plan.commands[i], plan.inputs[i].values, rate)
       IN  /\ bal' = IF r.ok THEN r.bal ELSE NoBalance
           /\ execIdx' = i
           /\ execPc' = IF ~r.ok THEN "reverted"
                        ELSE IF i = Len(plan.commands) THEN "done"
                        ELSE "running"
    /\ UNCHANGED <<rate, encVars, plannerVars, pathVars, auxVars>>

NextEncoder ==
    \/ Encode
    \/ OmegaTradeEncode
    \/ StartExecute
    \/ ExecuteCommand

SpecEncoder == InitEncoder /\ [][NextEncoder]_vars

\* ---------------------------------------------------------------------------
\* The encoders on a boosted route with a step of an unknown kind (SpecStepKind)

\* a step type that is none of BoostedRouteStepType.WRAP, UNWRAP, SWAP: the
\* type annotation rules it out, the running code does not
UNKNOWN_STEP == "UNKNOWN_STEP"

\* one-route boosted trades in which one step carries the unknown type
UnknownStepTrades ==
    UNION { { [t EXCEPT !.swaps[1].route.steps[j].type = UNKNOWN_STEP] :
                j \in 1..Len(t.swaps[1].route.steps) } :
            t \in { x \in StepDrivenTrades : x.swaps[1].route.isBoosted } }

InitStepKind ==
    /\ trade \in UnknownStepTrades
    /\ \/ /\ encoder = "OmegaEncoder"
          /\ options \in OptionsSet
       \/ /\ encoder = "OmegaTrade"
          /\ options \in StepDrivenOptions
    /\ plan = EmptyPlanner
    /\ calls = <<>>
    /\ encPc = "start"
    /\ RouterIdle
    /\ AuxIdle
    /\ PlannerIdle
    /\ PathIdle

NextStepKind ==
    \/ Encode
    \/ OmegaTradeEncode

SpecStepKind == InitStepKind /\ [][NextStepKind]_vars

\* C19: when a step of a boosted route has a kind other than WRAP, UNWRAP and
\* SWAP, encode throws: it never completes having added no command for a step.
C19_UnknownStepKindThrows ==
    (encPc # "start"
     /\ \E i \in 1..Len(trade.swaps[1].route.steps) :
           trade.swaps[1].route.steps[i].type \notin {WRAP, UNWRAP, SWAP})
        => encPc = "threw"

\* ---------------------------------------------------------------------------
\* determineSwapType (swapTypeUtils.ts)

\* enum BoostedSwapType
BoostedSwapType ==
    [WRAP_ONLY |-> "WRAP_ONLY", UNWRAP_ONLY |-> "UNWRAP_ONLY",
     UNDERLYING_TO_UNDERLYING |-> "UNDERLYING_TO_UNDERLYING",
     UNDERLYING_TO_BOOSTED |-> "UNDERLYING_TO_BOOSTED",
     BOOSTED_TO_UNDERLYING |-> "BOOSTED_TO_UNDERLYING",
     BOOSTED_TO_BOOSTED |-> "BOOSTED_TO_BOOSTED", NORMAL |-> "NORMAL"]

\* token instanceof BoostedToken
isBoostedToken(token) == IsVault(token)

\* variant: every plain-to-vault pair is routed through a pool
determineSwapType_NoDirectWrap(tIn, tOut) ==
    LET inputIsBoosted == isBoostedToken(tIn)
        outputIsBoosted == isBoostedToken(tOut)
    IN  IF ~inputIsBoosted /\ outputIsBoosted
        THEN BoostedSwapType.UNDERLYING_TO_BOOSTED
        ELSE IF inputIsBoosted /\ ~outputIsBoosted
        THEN IF Underlying(tIn) = tOut
             THEN BoostedSwapType.UNWRAP_ONLY
             ELSE BoostedSwapType.BOOSTED_TO_UNDERLYING
        ELSE IF ~inputIsBoosted /\ ~outputIsBoosted
        THEN BoostedSwapType.UNDERLYING_TO_UNDERLYING
        ELSE IF inputIsBoosted /\ outputIsBoosted
        THEN BoostedSwapType.BOOSTED_TO_BOOSTED
        ELSE BoostedSwapType.NORMAL

\* determineSwapType(tokenIn, tokenOut): the four if statements in order, then
\* the trailing return
determineSwapType(tIn, tOut) ==
    LET inputIsBoosted == isBoostedToken(tIn)
        outputIsBoosted == isBoostedToken(tOut)
    IN  IF ~inputIsBoosted /\ outputIsBoosted
        THEN IF Underlying(tOut) = tIn
             THEN BoostedSwapType.WRAP_ONLY
             ELSE BoostedSwapType.UNDERLYING_TO_BOOSTED
        ELSE IF inputIsBoosted /\ ~outputIsBoosted
        THEN IF Underlying(tIn) = tOut
             THEN BoostedSwapType.UNWRAP_ONLY
             ELSE BoostedSwapType.BOOSTED_TO_UNDERLYING
        ELSE IF ~inputIsBoosted /\ ~outputIsBoosted
        THEN BoostedSwapType.UNDERLYING_TO_UNDERLYING
        ELSE IF inputIsBoosted /\ outputIsBoosted
        THEN BoostedSwapType.BOOSTED_TO_BOOSTED
        ELSE BoostedSwapType.NORMAL

\* the tokens the classifier is called on: plain tokens and vaults, among them
\* vaults of a token of the set and pairs of unrelated tokens
ClassifierTokens == Tokens \cup {"vWETH", "C", "vC"}

InitSwapType ==
    /\ swapTokenIn \in ClassifierTokens
    /\ swapTokenOut \in ClassifierTokens
    /\ swapType = "none"
    /\ CallIdle
    /\ QuoteIdle
    /\ PlannerIdle
    /\ PathIdle
    /\ EncIdle

\* determineSwapType(tokenIn, tokenOut)
DetermineSwapType ==
    /\ swapType = "none"
    /\ swapType' = determineSwapType(swapTokenIn, swapTokenOut)
    /\ UNCHANGED <<swapTokenIn, swapTokenOut, callVars, quoteVars, plannerVars,
                   pathVars, encVars, routerVars>>

NextSwapType == DetermineSwapType

SpecSwapType == InitSwapType /\ [][NextSwapType]_vars

\* C12: determineSwapType returns a value for every pair of tokens, the one
\* the decision table gives: plain to its own vault is WRAP_ONLY, plain to
\* another vault UNDERLYING_TO_BOOSTED, vault to its own underlying
\* UNWRAP_ONLY, vault to another plain token BOOSTED_TO_UNDERLYING, plain to
\* plain UNDERLYING_TO_UNDERLYING, vault to vault BOOSTED_TO_BOOSTED; it never
\* returns NORMAL.
C12_SwapTypeDecisionTable ==
    swapType # "none" =>
        /\ swapType # "NORMAL"
        /\ (~IsVault(swapTokenIn) /\ IsVault(swapTokenOut)
            /\ Underlying(swapTokenOut) = swapTokenIn)
              <=> swapType = "WRAP_ONLY"
        /\ (~IsVault(swapTokenIn) /\ IsVault(swapTokenOut)
            /\ Underlying(swapTokenOut) # swapTokenIn)
              <=> swapType = "UNDERLYING_TO_BOOSTED"
        /\ (IsVault(swapTokenIn) /\ ~IsVault(swapTokenOut)
            /\ Underlying(swapTokenIn) = swapTokenOut)
              <=> swapType = "UNWRAP_ONLY"
        /\ (IsVault(swapTokenIn) /\ ~IsVault(swapTokenOut)
            /\ Underlying(swapTokenIn) # swapTokenOut)
              <=> swapType = "BOOSTED_TO_UNDERLYING"
        /\ (~IsVault(swapTokenIn) /\ ~IsVault(swapTokenOut))
              <=> swapType = "UNDERLYING_TO_UNDERLYING"
        /\ (IsVault(swapTokenIn) /\ IsVault(swapTokenOut))
              <=> swapType = "BOOSTED_TO_BOOSTED"

C12_Witness ==
    /\ swapType = "WRAP_ONLY"
    /\ swapTokenIn = "WETH"
    /\ swapTokenOut = "vWETH"

\* ---------------------------------------------------------------------------
\* swapCallParameters as a state machine (SpecCall)

\* the trades handed to swapCallParameters: one route each, for a native
\* input, a native output, plain tokens and vault tokens
CallTrades ==
    UNION { { TradeOf(tt, p, <<r>>) : tt \in {EXACT_INPUT, EXACT_OUTPUT},
                                      r \in SmallCatalog(p[1], p[2]) } :
            p \in MultiPairs }

\* OmegaSwapOptions
CallOptions ==
    [recipient : {UNDEFINED, "0xRecipient"}, slippageTolerance : Slippages,
     stepAmountsOut : {<<>>}, inputTokenPermit : {UNDEFINED, "permit"},
     deadline : {NO_DEADLINE, 1000}]

InitCall ==
    /\ encoder = "OmegaRouter"
    /\ trade \in CallTrades
    /\ options \in CallOptions
    /\ plan = EmptyPlanner
    /\ calls = <<>>
    /\ encPc = "start"
    /\ results = <<>>
    /\ position = NoPosition
    /\ RouterIdle
    /\ ClassIdle
    /\ QuoteIdle
    /\ PlannerIdle
    /\ PathIdle

\* router.swapCallParameters(trade, options), called again with the same trade
\* and the same options object
SwapCallParameters ==
    /\ encoder = "OmegaRouter"
    /\ Len(results) < MaxCalls
    /\ \E r \in {swapCallParameters(trade, options)} :
           /\ results' = Append(results, [threw |-> r.threw, calldata |-> r.calldata,
                                          value |-> r.value])
           /\ plan' = r.planner
           /\ calls' = r.calls
           /\ options' = r.options
           /\ encPc' = IF r.threw = "" THEN "encoded" ELSE "threw"
    /\ UNCHANGED <<trade, encoder, position, routerVars, plannerVars, pathVars,
                   classVars, quoteVars>>

NextCall == SwapCallParameters

SpecCall == InitCall /\ [][NextCall]_vars

NativeInput == IsNative(trade.input)

PermitSupplied == options.inputTokenPermit # UNDEFINED

SupportedRoute == trade.swaps[1].route.protocol \in SupportedProtocols

\* C13: for a native input currency and no permit, swapCallParameters returns
\* calldata whose first command is WRAP_ETH of maximumAmountIn(slippage), a
\* value equal to that amount, and for EXACT_OUTPUT a last command that
\* refunds the native currency.
C13_NativeInputWrapsMaximumAmountIn ==
    (NativeInput /\ ~PermitSupplied /\ SupportedRoute)
        => \A i \in 1..Len(results) :
              LET maxIn == maximumAmountIn(trade, options.slippageTolerance)
                  commands == results[i].calldata.parameters[1]
                  inputs == results[i].calldata.parameters[2]
              IN  /\ results[i].threw = ""
                  /\ commands[1] = WRAP_ETH
                  /\ inputs[1].values[2] = maxIn
                  /\ results[i].value = toHexString(maxIn)
                  /\ trade.tradeType = EXACT_OUTPUT
                        => commands[Len(commands)] = UNWRAP_WETH

\* C14: for a native input currency together with an input-token permit,
\* swapCallParameters throws the NATIVE_INPUT_PERMIT precondition violation
\* and returns no calldata.
C14_NativeInputWithPermitThrows ==
    (NativeInput /\ PermitSupplied)
        => \A i \in 1..Len(results) :
              /\ results[i].threw = "NATIVE_INPUT_PERMIT"
              /\ results[i].calldata = NoCalldata
              /\ plan = EmptyPlanner

C14_Witness ==
    /\ NativeInput
    /\ PermitSupplied
    /\ Len(results) > 0
    /\ results[1].threw = "NATIVE_INPUT_PERMIT"

\* C18: two swapCallParameters calls with the same trade and the same options
\* object, each on a new planner, return the same commands, inputs, calldata
\* and value.
C18_ReencodeIdentical ==
    \A i, j \in 1..Len(results) : results[i] = results[j]

\* C18 witness: two calls that both returned calldata with a deadline, the
\* first of which found options.recipient undefined and set the default.
C18_Witness ==
    /\ Len(results) = 2
    /\ results[1].threw = ""
    /\ results[2].calldata.functionSignature = "execute(bytes,bytes[],uint256)"
    /\ Len(results[2].calldata.parameters[1]) >= 3
    /\ options.recipient = SENDER_AS_RECIPIENT

\* ---------------------------------------------------------------------------
\* OmegaQuoter as a state machine (SpecQuoter)

\* the routes handed to the quoter: one of each supported class, a boosted
\* route of a vault step and a pool swap, and a route of no supported class
QuoterRoutes ==
    { RouteOf(pr, "A", "B", <<"A", "B">>) :
        pr \in {Protocol.V2, Protocol.V3, Protocol.INTEGRAL, Protocol.MIXED} }
    \cup { RouteOf(Protocol.INTEGRAL_BOOSTED, "A", "B", <<"A", "vA", "B">>),
            RouteOf(Protocol.INTEGRAL_BOOSTED, "A", "B", <<"A", "vA", "vB", "B">>) }

\* the bytes one quoter command returns: a swap output, a vault amount
\* output, or bytes that decode as neither
QuoterOutput(kind) ==
    [kind |-> kind, amount |-> IF kind = "amount" THEN 7 ELSE 8,
     sqrtPrices |-> <<5>>, gasEstimate |-> 3]

\* one result of the multicall, or the outcome of simulateContract
CallResults ==
    { [status |-> "failure", defined |-> FALSE, result |-> <<>>],
      [status |-> "success", defined |-> FALSE, result |-> <<>>] }
    \cup { [status |-> "success", defined |-> TRUE, result |-> r] :
             r \in { <<>>, <<QuoterOutput("swap")>>, <<QuoterOutput("bad")>>,
                     <<QuoterOutput("amount"), QuoterOutput("swap")>>,
                     <<QuoterOutput("amount"), QuoterOutput("swap"),
                       QuoterOutput("swap")>>,
                     <<QuoterOutput("amount"), QuoterOutput("swap"),
                       QuoterOutput("amount")>> } }

InitQuoter ==
    /\ quoteArgs \in [routes : UNION { [1..n -> QuoterRoutes] : n \in 0..MaxBatch },
                      amount : {100}, exactInput : BOOLEAN]
    /\ reply = NoReply
    /\ quoted = Resolved(<<>>)
    /\ quotePc = "start"
    /\ ClassIdle
    /\ CallIdle
    /\ PlannerIdle
    /\ PathIdle
    /\ EncIdle

\* quoter.batchQuote(routes, amount, exactInput): the multicall is issued only
\* when the routes are not empty and every buildCommands returned
BatchQuote ==
    /\ quotePc = "start"
    /\ \E multicall \in
           { [rejected |-> TRUE, results |-> <<>>] }
           \cup { [rejected |-> FALSE, results |-> rs] :
                    rs \in [1..Len(quoteArgs.routes) -> CallResults] } :
          LET issued ==
                  /\ Len(quoteArgs.routes) > 0
                  /\ \A i \in 1..Len(quoteArgs.routes) :
                        ~buildCommands(quoteArgs.routes[i], quoteArgs.amount,
                                       quoteArgs.exactInput).threw
          IN  /\ reply' = IF issued THEN multicall ELSE NoReply
              /\ quoted' = batchQuote(quoteArgs.routes, quoteArgs.amount,
                                      quoteArgs.exactInput, multicall)
    /\ quotePc' = "batch"
    /\ UNCHANGED <<quoteArgs, classVars, callVars, plannerVars, pathVars, encVars,
                   routerVars>>

\* quoter.quote(route, amount, exactInput) on a single route
Quote ==
    /\ quotePc = "start"
    /\ Len(quoteArgs.routes) = 1
    /\ \E simulate \in CallResults :
          LET issued == ~buildCommands(quoteArgs.routes[1], quoteArgs.amount,
                                       quoteArgs.exactInput).threw
          IN  /\ reply' = IF issued
                          THEN [rejected |-> simulate.status = "failure",
                                results |-> <<simulate>>]
                          ELSE NoReply
              /\ quoted' = quote(quoteArgs.routes[1], quoteArgs.amount,
                                 quoteArgs.exactInput, simulate)
    /\ quotePc' = "single"
    /\ UNCHANGED <<quoteArgs, classVars, callVars, plannerVars, pathVars, encVars,
                   routerVars>>

NextQuoter ==
    \/ BatchQuote
    \/ Quote

SpecQuoter == InitQuoter /\ [][NextQuoter]_vars

UnsupportedRouteAt(i) == getRouteType(quoteArgs.routes[i]).threw

\* sub-call i of the multicall failed, or its output cannot be parsed
SubCallFailed(i) ==
    \/ reply.results[i].status = "failure"
    \/ ~reply.results[i].defined
    \/ parseResult(quoteArgs.routes[i], reply.results[i].result,
                   quoteArgs.exactInput).threw

\* C15: batchQuote over N routes resolves to N entries in route order; entry i
\* is null exactly when sub-call i failed or its output could not be parsed,
\* and is otherwise the parsed quote of route i.
C15_BatchEntryPerRoute ==
    quotePc = "batch" =>
        /\ ~quoted.rejected
        /\ Len(quoted.entries) = Len(quoteArgs.routes)
        /\ \A i \in 1..Len(quoteArgs.routes) :
              IF SubCallFailed(i) THEN quoted.entries[i] = NullQuote
              ELSE quoted.entries[i] =
                      parseResult(quoteArgs.routes[i], reply.results[i].result,
                                  quoteArgs.exactInput).quote

\* C16: a route of the batch whose command construction throws yields null at
\* its index, and the batch still resolves to one entry per route.
C16_UnsupportedRouteYieldsNull ==
    (quotePc = "batch" /\ \E i \in 1..Len(quoteArgs.routes) : UnsupportedRouteAt(i))
        => /\ ~quoted.rejected
           /\ Len(quoted.entries) = Len(quoteArgs.routes)
           /\ \A i \in 1..Len(quoteArgs.routes) :
                 UnsupportedRouteAt(i) => quoted.entries[i] = NullQuote

\* C17: when the quoting call of a single quote() fails, the promise quote()
\* returned is rejected.
C17_SingleQuoteFailureRejects ==
    (quotePc = "single" /\ reply.rejected) => quoted.rejected

\* adjacent hops share a token: the tokenIn of each hop but the last is the
\* tokenOut of the hop encoded after it
Chained(hopList) ==
    \A i \in 1..(Len(hopList) - 1) : hopList[i].tokenIn = hopList[i + 1].tokenOut

\* C2: parsing the bytes of the exact-output path encoder with the inverse of
\* the record layout gives back exactly the hop list that was encoded.
C2_PathRoundTrip ==
    pathPc = "decoded" => decoded = hops

\* C11: a hop list in which some non-final hop's tokenIn differs from the
\* tokenOut of the hop encoded after it is rejected: the encoder returns no
\* bytes for it.
C11_MismatchedHopsRejected ==
    (pathPc # "start" /\ ~Chained(hops)) => (pathPc = "threw" /\ encoded = <<>>)

\* the hop lists encodeBoostedRouteExactOutput builds for the boosted routes
\* of at most MaxSteps steps that hold a SWAP step
BoostedRouteHopLists ==
    UNION { { BoostedRouteHops(StepsOf(q)) :
                q \in { x \in TokenPaths(n) :
                          \E i \in 1..n : StepsOf(x)[i].type = SWAP } } :
            n \in 1..MaxSteps }

\* C20: in the hop list encodeBoostedRouteExactOutput builds for a boosted
\* route, the external tokenIn of each hop is the external tokenOut of the hop
\* encoded after it, so leaving tokenIn out of all but the last record loses
\* nothing.
C20_RouteHopsChained ==
    (pathPc # "start" /\ hops \in BoostedRouteHopLists) => Chained(hops)

(***************************************************************************)
(* OmegaEncoder properties (checked under SpecEncoder)                     *)
(***************************************************************************)
ExactInSwaps == {INTEGRAL_SWAP_EXACT_IN, V2_SWAP_EXACT_IN, UNISWAP_V3_SWAP_EXACT_IN}

ExactOutSwaps == {INTEGRAL_SWAP_EXACT_OUT, V2_SWAP_EXACT_OUT, UNISWAP_V3_SWAP_EXACT_OUT}

\* the recipient field of the i-th command of the plan, by its ABI
RecipientAt(i) ==
    LET type == plan.commands[i]
        v == plan.inputs[i].values
    IN  CASE type \in ExactInSwaps \cup ExactOutSwaps \cup {WRAP_ETH, UNWRAP_WETH} -> v[1]
          [] type \in {PERMIT2_TRANSFER_FROM, SWEEP, ERC4626_UNWRAP} -> v[2]
          [] type = ERC4626_WRAP -> v[3]
          [] OTHER -> "none"

\* the minimum-output field of the i-th command of the plan, by its ABI
\* (-1: the command has none)
AmountMinAt(i) ==
    LET type == plan.commands[i]
        v == plan.inputs[i].values
    IN  CASE type \in ExactInSwaps \cup {SWEEP} -> v[3]
          [] type = UNWRAP_WETH -> v[2]
          [] type = ERC4626_WRAP -> v[5]
          [] type = ERC4626_UNWRAP -> v[4]
          [] OTHER -> 0 - 1

PlanIdx == 1..Len(plan.commands)

\* C1: when the router has executed every command of a plan emitted by encode,
\* crediting what commands send to the custody sentinel and debiting what they
\* spend, sweep or unwrap, it holds a zero balance of every token.
C1_CustodyConservation ==
    execPc = "done" => \A t \in Tokens : bal[t] = 0

\* C1 witness: an exact-output plan of several routes, one of them boosted, ran
\* to its end at the quoted price although more input was pulled than spent.
C1_Witness ==
    /\ execPc = "done" /\ rate = 10
    /\ trade.tradeType = EXACT_OUTPUT /\ Len(trade.swaps) >= 2
    /\ \E k \in 1..Len(trade.swaps) : trade.swaps[k].route.isBoosted
    /\ maximumAmountIn(trade, options.slippageTolerance) > inputAmount(trade)

\* C3: in every EXACT_INPUT plan of OmegaEncoder.encode, the last command
\* whose recipient is the trade's recipient carries
\* trade.minimumAmountOut(slippageTolerance) as its minimum output.
C3_LastPayoutCarriesMinimum ==
    (encoder = "OmegaEncoder" /\ encPc = "encoded" /\ trade.tradeType = EXACT_INPUT)
        => \E i \in PlanIdx :
              /\ RecipientAt(i) = options.recipient
              /\ \A j \in PlanIdx : j > i => RecipientAt(j) # options.recipient
              /\ AmountMinAt(i) = minimumAmountOut(trade, options.slippageTolerance)

\* C3 witness: three exact-input routes, paid out by a final SWEEP whose
\* minimum is below the quoted output.
C3_Witness ==
    /\ encoder = "OmegaEncoder" /\ encPc = "encoded" /\ trade.tradeType = EXACT_INPUT
    /\ Len(trade.swaps) = 3
    /\ plan.commands[Len(plan.commands)] = SWEEP
    /\ AmountMinAt(Len(plan.commands)) < outputAmount(trade)
    /\ AmountMinAt(Len(plan.commands)) > 0

\* C4: the first command of every EXACT_OUTPUT plan of OmegaEncoder.encode
\* pulls the input into the router: WRAP_ETH for a native input, PERMIT2_TRANSFER_FROM of the input
\* token otherwise, with the custody sentinel as recipient and
\* trade.maximumAmountIn(slippageTolerance) as amount.
C4_TransferInIsMaximumAmountIn ==
    (encoder = "OmegaEncoder" /\ encPc = "encoded" /\ trade.tradeType = EXACT_OUTPUT)
        => /\ Len(plan.commands) >= 1
           /\ RecipientAt(1) = ADDRESS_THIS
           /\ IF IsNative(trade.input)
              THEN /\ plan.commands[1] = WRAP_ETH
                   /\ plan.inputs[1].values[2] =
                         maximumAmountIn(trade, options.slippageTolerance)
              ELSE /\ plan.commands[1] = PERMIT2_TRANSFER_FROM
                   /\ plan.inputs[1].values[1] = Address(trade.input)
                   /\ plan.inputs[1].values[3] =
                         maximumAmountIn(trade, options.slippageTolerance)

\* C4 witness: an exact-output plan for a native input whose WRAP_ETH amount
\* is above the quoted input.
C4_Witness ==
    /\ encoder = "OmegaEncoder" /\ encPc = "encoded" /\ trade.tradeType = EXACT_OUTPUT
    /\ IsNative(trade.input)
    /\ plan.commands[1] = WRAP_ETH
    /\ plan.inputs[1].values[2] > inputAmount(trade)

\* C5: every EXACT_OUTPUT plan of either encoder ends with the refund of the unused input, after
\* every swap and payout command: UNWRAP_WETH(recipient, 0) for a native input,
\* SWEEP(inputToken, recipient, 0) otherwise.
C5_ExactOutputEndsWithRefund ==
    (encPc = "encoded" /\ trade.tradeType = EXACT_OUTPUT)
        => LET n == Len(plan.commands)
           IN  /\ n >= 2
               /\ IF IsNative(trade.input)
                  THEN /\ plan.commands[n] = UNWRAP_WETH
                       /\ plan.inputs[n].values = <<options.recipient, 0>>
                  ELSE /\ plan.commands[n] = SWEEP
                       /\ plan.inputs[n].values =
                             <<Address(trade.input), options.recipient, 0>>
               /\ Len(calls) = n
               /\ \A i \in PlanIdx : calls[i].swap > 0 => i < n

\* C5 witness: an exact-output plan for a native output and an ERC20 input:
\* the output unwrap is followed by the SWEEP of the input token.
C5_Witness ==
    /\ encoder = "OmegaEncoder" /\ encPc = "encoded" /\ trade.tradeType = EXACT_OUTPUT
    /\ IsNative(trade.output)
    /\ Len(plan.commands) >= 4
    /\ plan.commands[Len(plan.commands)] = SWEEP
    /\ plan.commands[Len(plan.commands) - 1] = UNWRAP_WETH

\* the plan has a payout command (UNWRAP_WETH or SWEEP) after position i
PayoutAfter(i) ==
    \E j \in PlanIdx : j > i /\ plan.commands[j] \in {UNWRAP_WETH, SWEEP}

\* C6: for every boosted route of an EXACT_INPUT plan of either encoder, the
\* command of every step but the last names the custody sentinel as recipient;
\* the command of the last step names the trade's recipient, or the custody
\* sentinel when an unwrap or sweep that pays out still follows.
C6_BoostedStepRecipients ==
    (encPc = "encoded" /\ trade.tradeType = EXACT_INPUT)
        => /\ Len(calls) = Len(plan.commands)
           /\ \A i \in PlanIdx :
                 calls[i].step > 0
                    => IF calls[i].step < Len(trade.swaps[calls[i].swap].route.steps)
                       THEN RecipientAt(i) = ADDRESS_THIS
                       ELSE RecipientAt(i) =
                               IF PayoutAfter(i) THEN ADDRESS_THIS
                               ELSE options.recipient

\* C6 witness: a boosted exact-input route of three steps whose last step pays
\* the caller-supplied recipient.
C6_Witness ==
    /\ encoder = "OmegaEncoder" /\ encPc = "encoded" /\ trade.tradeType = EXACT_INPUT
    /\ Len(trade.swaps) = 1
    /\ Len(trade.swaps[1].route.steps) = 3
    /\ Len(plan.commands) = 4
    /\ RecipientAt(2) = ADDRESS_THIS /\ RecipientAt(3) = ADDRESS_THIS
    /\ RecipientAt(4) = "0xRecipient"

\* an EXACT_OUTPUT trade of one boosted route with more than one SWAP step
\* has been handed to encode
MultiSwapBoostedExactOutput ==
    /\ encPc # "start"
    /\ trade.tradeType = EXACT_OUTPUT
    /\ Len(trade.swaps) = 1
    /\ trade.swaps[1].route.isBoosted
    /\ SwapCount(trade.swaps[1].route.steps, Len(trade.swaps[1].route.steps)) > 1

\* the step-driven OmegaTrade refuses such a trade before its first addCommand
OmegaTradeRefusesMultiSwap ==
    (encoder = "OmegaTrade" /\ MultiSwapBoostedExactOutput)
        => (encPc = "threw" /\ Len(plan.commands) = 0)

\* C7: encoding an EXACT_OUTPUT trade whose boosted route has more than one
\* SWAP step throws, and the planner holds no command when it throws.
C7_BoostedExactOutputMultiSwapThrows ==
    MultiSwapBoostedExactOutput => (encPc = "threw" /\ Len(plan.commands) = 0)

(***************************************************************************)
(* RoutePlanner properties (checked under SpecPlanner)                     *)
(***************************************************************************)
\* the byte EXECUTE_SUB_PLAN | 0x80
FlaggedSubPlan == EXECUTE_SUB_PLAN + ALLOW_REVERT_FLAG

\* C8: after any sequence of addCommand / addSubPlan calls, throwing calls
\* included, every planner has as many opcode bytes as inputs, and inputs[i] is
\* the blob that was supplied together with the i-th opcode.
C8_CommandsAlignedWithInputs ==
    \A id \in PlannerIds :
        /\ Len(planners[id].commands) = Len(planners[id].inputs)
        /\ planners[id].inputs = supplied[id]

\* C9: addCommand with allowRevert = TRUE throws for every opcode other than
\* EXECUTE_SUB_PLAN (in every reachable planner state), no opcode byte other
\* than EXECUTE_SUB_PLAN carries the 0x80 flag, and a call without allowRevert
\* never throws.
C9_OnlySubPlanRevertible ==
    /\ \A type \in CommandType \ {EXECUTE_SUB_PLAN} :
          /\ addCommand(planners["main"], type, <<nCalls>>, TRUE).threw
          /\ ~addCommand(planners["main"], type, <<nCalls>>, FALSE).threw
    /\ ~addCommand(planners["main"], EXECUTE_SUB_PLAN, <<nCalls>>, TRUE).threw
    /\ (call.op = "addCommand" /\ call.allowRevert /\ call.type # EXECUTE_SUB_PLAN)
          => call.threw
    /\ (call.op # "none" /\ ~call.allowRevert) => ~call.threw
    /\ \A id \in PlannerIds :
          \A i \in 1..Len(planners[id].commands) :
              planners[id].commands[i] >= ALLOW_REVERT_FLAG
                  => planners[id].commands[i] = FlaggedSubPlan

\* C9 witness: a planner that holds a flagged EXECUTE_SUB_PLAN byte has just
\* rejected a revertible request for another opcode.
C9_Witness ==
    /\ call.op = "addCommand" /\ call.allowRevert /\ call.threw
    /\ call.type = SWEEP
    /\ \E i \in 1..Len(planners["main"].commands) :
          planners["main"].commands[i] = FlaggedSubPlan

\* a successful call on planner t took it from old to new by one append
AppendedOne(old, new) ==
    /\ Len(new.commands) = Len(old.commands) + 1
    /\ SubSeq(new.commands, 1, Len(old.commands)) = old.commands
    /\ Len(new.inputs) = Len(old.inputs) + 1
    /\ SubSeq(new.inputs, 1, Len(old.inputs)) = old.inputs

\* C10 (as amended): a successful addCommand or addSubPlan appends exactly one
\* opcode byte and one input to its planner and keeps every earlier byte and
\* input in place; every other planner object, the wrapped sub-planner included
\* when it is another object, is left unchanged.
C10_AppendOnlyOtherPlannersUnchanged ==
    [][ (call'.op # "none" /\ ~call'.threw)
          => /\ AppendedOne(planners[call'.target], planners'[call'.target])
             /\ \A id \in PlannerIds \ {call'.target} : planners'[id] = planners[id]
      ]_vars

\* C10 as stated: addSubPlan always leaves the wrapped sub-planner unchanged.
C10_SubPlannerUnchanged ==
    [][ (call'.op = "addSubPlan" /\ ~call'.threw)
          => /\ AppendedOne(planners[call'.target], planners'[call'.target])
             /\ planners'[call'.sub] = planners[call'.sub]
      ]_vars

\* C10 witness: a sub-plan that holds a command was wrapped into the main
\* planner after an earlier command.
C10_Witness ==
    /\ call.op = "addSubPlan" /\ call.target = "main" /\ call.sub = "sub"
    /\ ~call.threw
    /\ Len(planners["main"].commands) = 2
    /\ Len(planners["sub"].commands) = 1

(***************************************************************************)
(* OmegaTrade.encode of a boosted route and the execution of its plan      *)
(* (SpecUnwind)                                                            *)
(***************************************************************************)
\* the trades of one boosted route, in both directions
BoostedStepDrivenTrades ==
    { t \in StepDrivenTrades : t.swaps[1].route.isBoosted }

InitUnwind ==
    /\ encoder = "OmegaTrade"
    /\ trade \in BoostedStepDrivenTrades
    /\ options \in StepDrivenOptions
    /\ plan = EmptyPlanner
    /\ calls = <<>>
    /\ encPc = "start"
    /\ RouterIdle
    /\ AuxIdle
    /\ PlannerIdle
    /\ PathIdle

\* the router starts executing the plan OmegaTrade built, holding nothing
StartExecuteStepDriven ==
    /\ encoder = "OmegaTrade"
    /\ encPc = "encoded"
    /\ execPc = "idle"
    /\ \E r \in Rates : rate' = r
    /\ execPc' = "running"
    /\ UNCHANGED <<bal, execIdx, encVars, plannerVars, pathVars, auxVars>>

\* the router executes one command of an OmegaTrade plan: the exact-output
\* swap carries the token addresses of encodeRouteToPath, output first
ExecuteStepDriven(b, type, v, r) ==
    IF type = INTEGRAL_SWAP_EXACT_OUT
    THEN ExecExactOut(b, v[1], v[2], v[3], TokenAt(v[4].tokens[Len(v[4].tokens)]),
                      TokenAt(v[4].tokens[1]), r)
    ELSE Execute(b, type, v, r)

\* the router executes the next command; a failing command reverts the whole
\* execution, its balances included
ExecuteStepDrivenCommand ==
    /\ encoder = "OmegaTrade"
    /\ execPc = "running"
    /\ execIdx < Len(plan.commands)
    /\ \E r \in {ExecuteStepDriven(bal, plan.commands[execIdx + 1],
                                    plan.inputs[execIdx + 1].values, rate)} :
           /\ bal' = IF r.ok THEN r.bal ELSE NoBalance
           /\ execIdx' = execIdx + 1
           /\ execPc' = IF ~r.ok THEN "reverted"
                        ELSE IF execIdx + 1 = Len(plan.commands) THEN "done"
                        ELSE "running"
    /\ UNCHANGED <<rate, encVars, plannerVars, pathVars, auxVars>>

NextUnwind ==
    \/ OmegaTradeEncode
    \/ StartExecuteStepDriven
    \/ ExecuteStepDrivenCommand

SpecUnwind == InitUnwind /\ [][NextUnwind]_vars

TheRoute == trade.swaps[1].route

\* the position of the one SWAP step of an accepted exact-output route
SwapIndex(steps) == CHOOSE i \in 1..Len(steps) : steps[i].type = SWAP

\* command c is the inverse vault operation of step, on the whole balance of
\* the router and paid to the router
IsInverse(c, step) ==
    IF step.type = WRAP
    THEN /\ c.type = ERC4626_UNWRAP
         /\ c.parameters = <<Address(step.tokenOut), ADDRESS_THIS, CONTRACT_BALANCE, 0>>
    ELSE /\ step.type = UNWRAP
         /\ c.type = ERC4626_WRAP
         /\ c.parameters = <<Address(step.tokenIn), Address(step.tokenOut), ADDRESS_THIS,
                             CONTRACT_BALANCE, 0>>

\* the commands between the forward pass (transfer-in, one command per step,
\* the native unwrap if any) and the final refund
UnwindSegment ==
    SubSeq(calls,
           Len(TheRoute.steps) + 2 + (IF IsNative(TheRoute.output) THEN 1 ELSE 0),
           Len(calls) - 1)

\* the tokens of the route other than its input and its output
IntermediateTokens ==
    { TheRoute.tokenPath[i] : i \in 2..(Len(TheRoute.tokenPath) - 1) }

\* C21: for every boosted EXACT_OUTPUT route the step-driven encoder accepts,
\* the commands between the forward steps and the final refund are, in reverse
\* step order, the inverse vault operation on the router's whole balance of
\* every WRAP or UNWRAP before the swap; once the router has run the last
\* command it holds nothing of any intermediate token of the route.
C21_ReverseUnwindMirrorsForwardPass ==
    (encoder = "OmegaTrade" /\ encPc = "encoded" /\ TheRoute.isBoosted
       /\ trade.tradeType = EXACT_OUTPUT)
    => LET steps == TheRoute.steps
           s == SwapIndex(steps)
           U == UnwindSegment
       IN  /\ Len(U) = s - 1
           /\ \A j \in 1..(s - 1) : IsInverse(U[j], steps[s - j])
           /\ calls[Len(calls)].type \in {SWEEP, UNWRAP_WETH}
           /\ execPc = "done" => \A t \in IntermediateTokens : bal[t] = 0

\* C21 witness: an exact-output plan whose first step redeems vault shares ran
\* to its end with more input pulled than the swap spent.
C21_Witness ==
    /\ encoder = "OmegaTrade" /\ encPc = "encoded" /\ execPc = "done"
    /\ trade.tradeType = EXACT_OUTPUT /\ TheRoute.isBoosted
    /\ Len(TheRoute.steps) = 3
    /\ TheRoute.steps[1].type = UNWRAP
    /\ Len(UnwindSegment) = 1

(***************************************************************************)
(* The shape of the plan of one boosted route (checked under SpecEncoder)  *)
(***************************************************************************)
\* the command a step of each kind is encoded as in an exact-input plan
StepKindCommand(type) ==
    CASE type = WRAP -> ERC4626_WRAP
      [] type = UNWRAP -> ERC4626_UNWRAP
      [] type = SWAP -> INTEGRAL_SWAP_EXACT_IN

SingleBoostedExactInput ==
    /\ encPc = "encoded"
    /\ trade.tradeType = EXACT_INPUT
    /\ Len(trade.swaps) = 1
    /\ TheRoute.isBoosted

\* C22: the plan of a single boosted EXACT_INPUT route of n steps is one
\* transfer-in command, then n step commands whose kinds are those of the
\* route's steps in the same order, then one native unwrap exactly when the
\* output is native; nothing else, for both encoders.
C22_BoostedExactInputPlanShape ==
    SingleBoostedExactInput
    => LET n == Len(TheRoute.steps)
           u == IF IsNative(trade.output) THEN 1 ELSE 0
       IN  /\ Len(plan.commands) = n + 1 + u
           /\ Len(plan.inputs) = Len(plan.commands)
           /\ plan.commands[1] =
                 (IF IsNative(trade.input) THEN WRAP_ETH ELSE PERMIT2_TRANSFER_FROM)
           /\ \A i \in 1..n :
                 /\ plan.commands[i + 1] = StepKindCommand(TheRoute.steps[i].type)
                 /\ calls[i + 1].step = i
           /\ u = 1 => plan.commands[n + 2] = UNWRAP_WETH

\* C22 witness: OmegaEncoder encoded a route that redeems vault shares and
\* then swaps into the wrapped native token, paid out as native currency.
C22_Witness ==
    /\ SingleBoostedExactInput /\ encoder = "OmegaEncoder"
    /\ IsNative(trade.output)
    /\ Len(TheRoute.steps) = 2
    /\ TheRoute.steps[1].type = UNWRAP
    /\ Len(plan.commands) = 4

(***************************************************************************)
(* Where the minimum output of an EXACT_INPUT plan sits (SpecEncoder)      *)
(***************************************************************************)
\* the swap and vault-step commands of the plan
StepCommandIdx ==
    { i \in PlanIdx :
        plan.commands[i] \in ExactInSwaps \cup ExactOutSwaps
                               \cup {ERC4626_WRAP, ERC4626_UNWRAP} }

TradeMinimum == minimumAmountOut(trade, options.slippageTolerance)

\* the last command sweeps the output token, or unwraps it when it is native
TrailingPayout(i) ==
    IF IsNative(trade.output) THEN plan.commands[i] = UNWRAP_WETH
    ELSE /\ plan.commands[i] = SWEEP
         /\ plan.inputs[i].values[1] = Address(Wrapped(trade.output))

C24_EveryMinimumMetAtQuotedAmounts ==
    (encoder = "OmegaEncoder" /\ encPc = "encoded" /\ trade.tradeType = EXACT_INPUT)
    => /\ \A i \in StepCommandIdx :
             AmountMinAt(i) <= trade.swaps[calls[i].swap].outputAmount
       /\ \A i \in PlanIdx :
             plan.commands[i] \in {SWEEP, UNWRAP_WETH}
                => AmountMinAt(i) <= outputAmount(trade)

\* C25: when OmegaEncoder.encode throws because a swap of the trade has an
\* unsupported route protocol, the planner handed to encode holds exactly the
\* commands and inputs it held before the call (here: none).
C25_ThrowLeavesPlannerUntouched ==
    (encoder = "OmegaEncoder" /\ encPc = "threw")
    => /\ plan.commands = <<>>
       /\ plan.inputs = <<>>

\* the trade is one boosted route without a pool: a vault deposit (WRAP_ONLY)
\* or a vault redeem (UNWRAP_ONLY)
NoPoolRoute ==
    /\ Len(trade.swaps) = 1
    /\ TheRoute.isBoosted
    /\ Len(TheRoute.pools) = 0
    /\ \A i \in 1..Len(TheRoute.steps) : TheRoute.steps[i].type \in {WRAP, UNWRAP}

\* C26: the plan OmegaEncoder.encode emits for a boosted route without a pool
\* holds no pool-swap command, in either trade direction: after the
\* transfer-in come only the vault wrap or unwrap and, where required, the
\* refund or the native unwrap.
C26_NoPoolRouteEmitsNoSwap ==
    (encoder = "OmegaEncoder" /\ encPc = "encoded" /\ NoPoolRoute)
    => /\ \A i \in PlanIdx : plan.commands[i] \notin ExactInSwaps \cup ExactOutSwaps
       /\ \E i \in PlanIdx : plan.commands[i] \in {ERC4626_WRAP, ERC4626_UNWRAP}
       /\ \A i \in PlanIdx :
             plan.commands[i] \in {WRAP_ETH, PERMIT2_TRANSFER_FROM, ERC4626_WRAP,
                                   ERC4626_UNWRAP, SWEEP, UNWRAP_WETH}

(***************************************************************************)
(* The quoter's commands against the encoder's (checked under SpecEncoder) *)
(***************************************************************************)
\* the CommandType member that has the name of a QuoterCommandType member
CommandNamed(name) ==
    CASE name = "V2_SWAP_EXACT_IN" -> V2_SWAP_EXACT_IN
      [] name = "V2_SWAP_EXACT_OUT" -> V2_SWAP_EXACT_OUT
      [] name = "UNISWAP_V3_SWAP_EXACT_IN" -> UNISWAP_V3_SWAP_EXACT_IN
      [] name = "UNISWAP_V3_SWAP_EXACT_OUT" -> UNISWAP_V3_SWAP_EXACT_OUT
      [] name = "INTEGRAL_SWAP_EXACT_IN" -> INTEGRAL_SWAP_EXACT_IN
      [] name = "INTEGRAL_SWAP_EXACT_OUT" -> INTEGRAL_SWAP_EXACT_OUT
      [] name = "ERC4626_WRAP" -> ERC4626_WRAP
      [] name = "ERC4626_UNWRAP" -> ERC4626_UNWRAP

\* the pool-swap and vault commands of the encoder's plan, in order
EncoderKinds ==
    SelectSeq(plan.commands,
              LAMBDA c : c \in ExactInSwaps \cup ExactOutSwaps
                                \cup {ERC4626_WRAP, ERC4626_UNWRAP})

\* the commands OmegaQuoter.buildCommands builds for the route of the trade
QuoterCommandsOfTrade ==
    buildCommands(TheRoute,
                  IF trade.tradeType = EXACT_INPUT THEN inputAmount(trade)
                  ELSE outputAmount(trade),
                  trade.tradeType = EXACT_INPUT)

\* C27: for every route and trade direction, the pool-swap, vault-wrap and
\* vault-unwrap command kinds OmegaQuoter.buildCommands builds are, in order,
\* those OmegaEncoder.encode emits for the same route and direction once the
\* transfer-in, native wrap/unwrap and sweep commands are removed.
C27_QuoterMirrorsEncoder ==
    (encoder = "OmegaEncoder" /\ encPc = "encoded" /\ Len(trade.swaps) = 1)
    => /\ ~QuoterCommandsOfTrade.threw
       /\ [i \in 1..Len(QuoterCommandsOfTrade.commands) |->
              CommandNamed(QuoterCommandsOfTrade.commands[i])]
          = EncoderKinds

\* C28: OmegaEncoder.encode and swapCallParameters leave the caller's
\* SwapOptions object as it was: no step changes any of its fields, the
\* recipient included.
C28_OptionsNotMutated == [][options' = options]_vars

(***************************************************************************)
(* The parsed quote of a boosted route (checked under SpecQuoter)          *)
(***************************************************************************)
\* the sum of the gas estimates of the outputs at the positions in S
RECURSIVE GasAt(_, _)
GasAt(outputs, S) ==
    IF S = {} THEN 0
    ELSE LET j == CHOOSE x \in S : TRUE
         IN  outputs[j].gasEstimate + GasAt(outputs, S \ {j})

\* entry i is the parsed quote of a boosted EXACT_INPUT route whose quoter
\* call returned one output per command, that is, one per step
BoostedExactInQuote(i) ==
    /\ quoteArgs.exactInput
    /\ quoteArgs.routes[i].isBoosted
    /\ ~quoted.entries[i].isNull
    /\ Len(reply.results[i].result) = Len(quoteArgs.routes[i].steps)

MintPositions ==
    LET MintAmounts ==
            {<<0, 0>>, <<30000, 0>>, <<30000, 1>>, <<30000, 9999>>,
             <<30000, 10000>>, <<30000, 25000>>}
    IN
    { [pool |-> [token0 |-> t0, token1 |-> t1], tickLower |-> 0 - 60,
       tickUpper |-> 60,
       mintAmounts |-> [amount0 |-> a0[1], amount1 |-> a1[1]],
       mintAmountsWithSlippage |-> [amount0 |-> a0[2], amount1 |-> a1[2]]] :
      t0 \in Tokens, t1 \in Tokens, a0 \in MintAmounts, a1 \in MintAmounts }

\* OmegaMintOptions; slippageTolerance is held by
\* position.mintAmountsWithSlippage. UnderlyingAmounts: the underlying amounts
\* a caller may hand in for a pool token: none, or an amount of the vault's
\* underlying token (of the token itself when it is no vault)
MintOptions(pos) ==
    LET UnderlyingAmounts(poolToken) ==
            {[defined |-> FALSE, currency |-> poolToken, quotient |-> 0]}
            \cup { CurrencyAmount(IF IsVault(poolToken) THEN Underlying(poolToken)
                                  ELSE poolToken, q) : q \in {0, 30000} }
    IN
    [recipient : {"0xRecipient"}, deadline : {1000}, useNative : BOOLEAN,
     deployer : {UNDEFINED}, token0Permit : {UNDEFINED, "permit0"},
     token1Permit : {UNDEFINED, "permit1"},
     amount0Underlying : UnderlyingAmounts(pos.pool.token0),
     amount1Underlying : UnderlyingAmounts(pos.pool.token1),
     tokenId : {UNDEFINED, "7"}]

InitMint ==
    /\ encoder = "OmegaRouter"
    /\ trade = NoTrade
    /\ position \in MintPositions
    /\ Address(position.pool.token0) < Address(position.pool.token1)
    /\ options \in MintOptions(position)
    /\ plan = EmptyPlanner
    /\ calls = <<>>
    /\ encPc = "start"
    /\ results = <<>>
    /\ RouterIdle
    /\ ClassIdle
    /\ QuoteIdle
    /\ PlannerIdle
    /\ PathIdle

\* router.addCallParameters(position, options), called again with the same
\* position and options
AddCallParameters ==
    /\ encoder = "OmegaRouter"
    /\ position # NoPosition
    /\ Len(results) < MaxCalls
    /\ \E r \in {addCallParameters(position, options)} :
           /\ results' = Append(results, [threw |-> r.threw, calldata |-> r.calldata,
                                          value |-> r.value])
           /\ plan' = r.planner
           /\ calls' = r.calls
           /\ encPc' = "encoded"
    /\ UNCHANGED <<trade, options, encoder, position, routerVars, plannerVars,
                   pathVars, classVars, quoteVars>>

NextMint == AddCallParameters

SpecMint == InitMint /\ [][NextMint]_vars

\* addCallParameters has returned
Minted == encoder = "OmegaRouter" /\ position # NoPosition /\ results # <<>>

\* the INTEGRAL_MINT or INTEGRAL_INCREASE_LIQUIDITY call of the plan
LiquidityCall ==
    calls[CHOOSE i \in 1..Len(calls) :
              calls[i].type \in {INTEGRAL_MINT, INTEGRAL_INCREASE_LIQUIDITY}]

\* the minimum written into the plan for token 0 or token 1
WrittenMin(side) ==
    LET struct == LiquidityCall.parameters[1]
    IN  IF LiquidityCall.type = INTEGRAL_MINT THEN struct[8 + side]
        ELSE struct[4 + side]

\* the slippage-derived minimum of token 0 or token 1
SlippageMin(side) ==
    IF side = 0 THEN position.mintAmountsWithSlippage.amount0
    ELSE position.mintAmountsWithSlippage.amount1

\* token 0 or token 1 is a boosted token that addCallParameters wraps: the
\* caller handed in its underlying amount
WrapsBoosted(side) ==
    IF side = 0
    THEN options.amount0Underlying.defined
         /\ isBoostedToken(unwrappedToken(position.pool.token0))
    ELSE options.amount1Underlying.defined
         /\ isBoostedToken(unwrappedToken(position.pool.token1))

====
